---- MODULE Spec2Model ----
(***************************************************************************)
(* Governance decision engines of agora-dao-agent:                         *)
(*   GovernanceEngine          (src/src/governance_engine.py)              *)
(*   EnhancedGovernanceEngine  (src/src/enhanced_engine.py)                *)
(*   ProposalAnalyzer          (src/src/analyzer.py)                       *)
(*   OpenRouterGovernanceAnalyzer (src/src/openrouter_analyzer.py)         *)
(*                                                                         *)
(* Numbers: a confidence is an integer number of hundredths (0.65 is 65);  *)
(* a cost is an integer number of 1e-7 USD (one token costs 3 units, see   *)
(* _calculate_cost).  Python's None is the string "None".                  *)
(***************************************************************************)
EXTENDS Integers, Sequences, FiniteSets, TLC

VARIABLES
    config,               \* GovernanceEngine.config["automation"]
    econfig,              \* EnhancedGovernanceEngine.config["automation"]
    use_ai_analysis,      \* EnhancedGovernanceEngine.use_ai_analysis
    cost_metrics,         \* EnhancedGovernanceEngine.cost_metrics
    processed_proposals,  \* EnhancedGovernanceEngine.processed_proposals
    total_usage,          \* OpenRouterGovernanceAnalyzer.total_usage
    call,                 \* the latest call: the method and its arguments
    ret,                  \* what the latest call returned
    callbacks,            \* GovernanceEngine.callbacks
    emitted,              \* the emit_event calls made so far, in order
    delivered,            \* the callback invocations made so far, in order
    loop,                 \* the monitoring loop: where it is and what it holds
    session,              \* OpenRouterGovernanceAnalyzer.session and the sessions made
    tasks                 \* the asyncio tasks running analyze_proposal_enhanced

vars == <<config, econfig, use_ai_analysis, cost_metrics, processed_proposals,
          total_usage, call, ret, callbacks, emitted, delivered, loop,
          session, tasks>>

\* the variables of the event bus, of the monitoring loop and of concurrent tasks
pipelineVars == <<callbacks, emitted, delivered, loop, session, tasks>>

None == "None"

\* the value of `ret` while a call has not returned
Pending == [pending |-> TRUE]

\* d is a dict with key k
Has(d, k) == k \in DOMAIN d

----------------------------------------------------------------------------
(* Bounds of the model *)

\* most keyword occurrences in one (title, description) pair
MaxWords == 2
\* most analyses one engine performs in a run
MaxAnalyses == 2

----------------------------------------------------------------------------
(* Enumerations *)

RiskLevel == {"low", "medium", "high", "critical"}

SentimentScore == {-2, -1, 0, 1, 2}

Recommendations == {"auto_approve", "auto_reject", "human_review"}

\* confidence scores in hundredths, around every threshold the code compares with
ConfidenceValues == {0, 64, 65, 70, 79, 80, 100}

----------------------------------------------------------------------------
(* Proposal text.  A text is the set of keyword occurrences in it; an      *)
(* occurrence is <<keyword, style>>, style telling how it is written.      *)
(* Python's `word in s` is substring containment.                          *)

RiskHighWords == {"treasury", "fund", "million", "allocation"}

RiskCriticalWords == {"emergency", "critical", "security"}

RiskLowWords == {"parameter", "config", "setting"}

positive_words == {"improve", "enhance", "benefit", "growth", "optimize"}

negative_words == {"problem", "fix", "emergency", "critical", "issue"}

high_value_keywords == {"treasury", "fund", "allocation", "budget", "million",
                        "emergency", "security", "upgrade", "protocol",
                        "critical", "strategic"}

routine_keywords == {"parameter", "setting", "config", "minor", "adjustment", "update"}

HeuristicKeywords == RiskHighWords \cup RiskCriticalWords \cup RiskLowWords
                        \cup positive_words \cup negative_words

SelectorKeywords == high_value_keywords \cup routine_keywords

Styles == {"lower", "Capitalized"}

Fields == {"title", "description"}

\* str.lower() of a text: every occurrence becomes its lowercase keyword
Lower(t) == {<<occ[1], "lower">> : occ \in t}

\* `word in s` for a lowercase word: case-sensitive substring test
Contains(s, word) == <<word, "lower">> \in s

\* the sets of at most n occurrences <<field, keyword, style>> of the keywords kw
RECURSIVE OccurrencesUpTo(_, _)
OccurrencesUpTo(kw, n) ==
    IF n = 0 THEN {{}}
    ELSE LET prev == OccurrencesUpTo(kw, n - 1)
         IN  prev \cup {s \cup {occ} : s \in prev, occ \in Fields \X kw \X Styles}

FieldText(s, field) == {<<occ[2], occ[3]>> : occ \in {o \in s : o[1] = field}}

\* the (title, description) pairs with at most n keyword occurrences in all
TextPairs(kw, n) ==
    {[title |-> FieldText(s, "title"), description |-> FieldText(s, "description")] :
        s \in OccurrencesUpTo(kw, n)}

----------------------------------------------------------------------------
(* ProposalAnalyzer._analyze_heuristic (src/src/analyzer.py)               *)

\* any(word in a or word in b for word in words)
AnyWordIn(words, a, b) == \E word \in words : Contains(a, word) \/ Contains(b, word)

\* sum(1 for word in words if word in a or word in b)
CountWordsIn(words, a, b) ==
    Cardinality({word \in words : Contains(a, word) \/ Contains(b, word)})

\* a plausible slip: the emergency words are tested before the treasury words
HeuristicRisk_CriticalFirst(title_lower, desc_lower) ==
    IF AnyWordIn(RiskCriticalWords, title_lower, desc_lower) THEN "critical"
    ELSE IF AnyWordIn(RiskHighWords, title_lower, desc_lower) THEN "high"
    ELSE IF AnyWordIn(RiskLowWords, title_lower, desc_lower) THEN "low"
    ELSE "medium"

HeuristicRisk(title_lower, desc_lower) ==
    IF AnyWordIn(RiskHighWords, title_lower, desc_lower) THEN "high"
    ELSE IF AnyWordIn(RiskCriticalWords, title_lower, desc_lower) THEN "critical"
    ELSE IF AnyWordIn(RiskLowWords, title_lower, desc_lower) THEN "low"
    ELSE "medium"

HeuristicRiskFactors(risk_level) ==
    CASE risk_level = "high" -> <<"Financial impact on treasury">>
      [] risk_level = "critical" -> <<"Emergency security concern">>
      [] risk_level = "low" -> <<"Configuration change">>
      [] OTHER -> <<"Standard governance review required">>

HeuristicSentiment(title_lower, desc_lower) ==
    LET positive_count == CountWordsIn(positive_words, title_lower, desc_lower)
        negative_count == CountWordsIn(negative_words, title_lower, desc_lower)
    IN  IF positive_count > negative_count THEN 1
        ELSE IF negative_count > positive_count THEN -1
        ELSE 0

\* a plausible slip: the critical branch recommends rejection
HeuristicRecommendation_RejectsCritical(risk_level, sentiment) ==
    IF risk_level = "low" /\ sentiment >= 0 THEN "auto_approve"
    ELSE IF risk_level = "critical" THEN "auto_reject"
    ELSE "human_review"

HeuristicRecommendation(risk_level, sentiment) ==
    IF risk_level = "low" /\ sentiment >= 0 THEN "auto_approve"
    ELSE IF risk_level = "critical" THEN "human_review"
    ELSE "human_review"

AnalyzerHeuristicConfidence == 65

_analyze_heuristic(title, description) ==
    LET title_lower == Lower(title)
        desc_lower == Lower(description)
        risk_level == HeuristicRisk(title_lower, desc_lower)
        sentiment == HeuristicSentiment(title_lower, desc_lower)
    IN  [risk_level |-> risk_level,
         risk_factors |-> HeuristicRiskFactors(risk_level),
         sentiment_score |-> sentiment,
         key_points |-> <<<<"Heuristic analysis", risk_level>>>>,
         estimated_impact |-> "Requires detailed review",
         automation_recommendation |-> HeuristicRecommendation(risk_level, sentiment),
         confidence_score |-> AnalyzerHeuristicConfidence]

----------------------------------------------------------------------------
(* GovernanceEngine.make_governance_decision (src/src/governance_engine.py) *)

\* GovernanceEngine.default_config()["automation"]
default_config ==
    [enabled |-> TRUE,
     auto_approve |-> [max_risk_level |-> "low", min_sentiment |-> 0,
                       min_confidence |-> 80],
     auto_reject |-> [min_risk_level |-> "critical", max_sentiment |-> -2],
     emergency_keywords |-> {"emergency", "critical", "urgent", "hack", "exploit"}]

\* the policy configurations a caller may pass to GovernanceEngine(config)
PolicyConfigs ==
    [enabled : BOOLEAN,
     auto_approve : [max_risk_level : RiskLevel, min_sentiment : SentimentScore,
                     min_confidence : {65, 80}],
     auto_reject : [min_risk_level : RiskLevel, max_sentiment : SentimentScore]]

\* the analyses a caller may pass to make_governance_decision
Analyses ==
    [risk_level : RiskLevel, sentiment_score : SentimentScore,
     confidence_score : ConfidenceValues]

\* severity order of the risk levels (low < medium < high < critical)
RiskRank(r) ==
    CASE r = "low" -> 0 [] r = "medium" -> 1 [] r = "high" -> 2 [] OTHER -> 3

\* a plausible slip: "at most the configured level" instead of the exact match
AutoApproveCriteria_AtMost(auto_approve, a) ==
    /\ RiskRank(a.risk_level) <= RiskRank(auto_approve.max_risk_level)
    /\ a.sentiment_score >= auto_approve.min_sentiment
    /\ a.confidence_score >= auto_approve.min_confidence

\* the auto-approve criteria (the first `if` after the enabled test)
AutoApproveCriteria(auto_approve, a) ==
    /\ a.risk_level = auto_approve.max_risk_level
    /\ a.sentiment_score >= auto_approve.min_sentiment
    /\ a.confidence_score >= auto_approve.min_confidence

\* the auto-reject criteria (the second `if`)
AutoRejectCriteria(auto_reject, a) ==
    \/ a.risk_level = auto_reject.min_risk_level
    \/ a.sentiment_score <= auto_reject.max_sentiment

\* an exception propagating out of a call
Raised(exception) == [raised |-> exception]

\* the dict returned when automation is disabled
DisabledDecision ==
    [action |-> "human_review",
     reason |-> <<"Automation disabled">>,
     confidence |-> 100]

\* the dict returned by the auto-approve branch
ApproveDecision(a) ==
    [action |-> "auto_approve",
     reason |-> <<"Low risk", a.risk_level, "positive sentiment",
                  a.sentiment_score, "high confidence", a.confidence_score>>,
     confidence |-> a.confidence_score,
     vote |-> "approve"]

\* a plausible slip: the auto-reject branch forgets its vote
RejectDecision_NoVote(a) ==
    [action |-> "auto_reject",
     reason |-> <<"High risk", a.risk_level, "or negative sentiment",
                  a.sentiment_score>>,
     confidence |-> a.confidence_score]

\* the dict returned by the auto-reject branch
RejectDecision(a) ==
    [action |-> "auto_reject",
     reason |-> <<"High risk", a.risk_level, "or negative sentiment",
                  a.sentiment_score>>,
     confidence |-> a.confidence_score,
     vote |-> "reject"]

\* the dict returned by the default branch
ReviewDecision(a) ==
    [action |-> "human_review",
     reason |-> <<"Medium risk", a.risk_level, "requires human judgment">>,
     confidence |-> a.confidence_score,
     vote |-> None]

\* a plausible slip: the enabled flag is never looked at
make_governance_decision_IgnoresEnabled(cfg, a) ==
    IF AutoApproveCriteria(cfg.auto_approve, a) THEN ApproveDecision(a)
    ELSE IF AutoRejectCriteria(cfg.auto_reject, a) THEN RejectDecision(a)
    ELSE ReviewDecision(a)

\* a plausible slip: the reject test comes before the approve test
make_governance_decision_RejectFirst(cfg, a) ==
    IF ~cfg.enabled THEN DisabledDecision
    ELSE IF AutoRejectCriteria(cfg.auto_reject, a) THEN RejectDecision(a)
    ELSE IF AutoApproveCriteria(cfg.auto_approve, a) THEN ApproveDecision(a)
    ELSE ReviewDecision(a)

\* config[key] of a dict that may lack the key raises KeyError(key)
make_governance_decision(cfg, a) ==
    IF "enabled" \notin DOMAIN cfg THEN Raised("KeyError: enabled")
    ELSE IF ~cfg.enabled THEN DisabledDecision
    ELSE IF "auto_approve" \notin DOMAIN cfg THEN Raised("KeyError: auto_approve")
    ELSE IF AutoApproveCriteria(cfg.auto_approve, a) THEN ApproveDecision(a)
    ELSE IF "auto_reject" \notin DOMAIN cfg THEN Raised("KeyError: auto_reject")
    ELSE IF AutoRejectCriteria(cfg.auto_reject, a) THEN RejectDecision(a)
    ELSE ReviewDecision(a)

----------------------------------------------------------------------------
(* AgoraAgent.apply_governance_rules (src/agora.py)                        *)

\* AgoraAgent.load_governance_rules()
load_governance_rules ==
    [auto_approve |-> [max_risk_level |-> "low", min_sentiment |-> 1,
                       required_confidence |-> 80],
     auto_reject |-> [min_risk_level |-> "critical", max_sentiment |-> -2]]

\* "Check for auto-approval": the risk level is compared with the literal "low"
AgoraApproveCriteria(rules, a) ==
    /\ a.risk_level = "low"
    /\ a.sentiment_score >= rules.auto_approve.min_sentiment
    /\ a.confidence_score >= rules.auto_approve.required_confidence

\* "Check for auto-rejection": the risk level is compared with the literal "critical"
AgoraRejectCriteria(rules, a) ==
    \/ a.risk_level = "critical"
    \/ a.sentiment_score <= rules.auto_reject.max_sentiment

apply_governance_rules(rules, a) ==
    IF AgoraApproveCriteria(rules, a)
    THEN [action |-> "auto_approve",
          reason |-> <<"Low risk, positive sentiment, high confidence">>,
          confidence |-> a.confidence_score]
    ELSE IF AgoraRejectCriteria(rules, a)
    THEN [action |-> "auto_reject",
          reason |-> <<"High risk or very negative sentiment">>,
          confidence |-> a.confidence_score]
    ELSE [action |-> "human_review",
          reason |-> <<"Requires manual evaluation">>,
          confidence |-> a.confidence_score]

----------------------------------------------------------------------------
(* OpenRouterGovernanceAnalyzer (src/src/openrouter_analyzer.py)           *)

\* _calculate_cost: (tokens / 1000) * 0.0003 USD, in units of 1e-7 USD
_calculate_cost(total_tokens) == total_tokens * 3

\* _fallback_analysis(): the dict used when the model's content is not JSON
_fallback_analysis ==
    [risk_level |-> "medium",
     sentiment_score |-> 0,
     automation_recommendation |-> "human_review",
     confidence_score |-> 0]

\* What one call of the AI backend can do:
\*   "json"     the content parses; data holds the parsed values
\*   "bad_json" the content is not JSON (json.JSONDecodeError)
\*   "error"    the request fails, or the reply has an "error" key or lacks
\*              "choices"/"usage": an exception inside the method's try
\*   "timeout"  the session's own timeout ends the request: asyncio.TimeoutError
\*              inside the method's try
\*   "raise"    an exception escapes the `async with self.ai_analyzer` block
AIData ==
    [risk_level : {"low", "critical"}, sentiment_score : {-1, 1},
     automation_recommendation : Recommendations, confidence_score : {70, 80}]

\* usage["total_tokens"] of a reply
TokenCounts == {1000}

AIOutcomes ==
    [kind : {"json"}, data : AIData, total_tokens : TokenCounts]
      \cup [kind : {"bad_json"}, total_tokens : TokenCounts]
      \cup [kind : {"error", "timeout", "raise"}]

\* the OpenRouterAnalysis returned by analyze_governance_proposal
analyze_governance_proposal(outcome) ==
    IF outcome.kind \in {"error", "timeout"}
    THEN \* except Exception: return self._fallback_analysis_or(proposal_title)
         [risk_level |-> _fallback_analysis.risk_level,
          sentiment_score |-> _fallback_analysis.sentiment_score,
          automation_recommendation |-> _fallback_analysis.automation_recommendation,
          confidence_score |-> _fallback_analysis.confidence_score,
          token_usage |-> [total_tokens |-> 0, cost_usd |-> 0, model_used |-> "fallback"]]
    ELSE LET analysis_data == IF outcome.kind = "json" THEN outcome.data
                              ELSE _fallback_analysis
         IN  [risk_level |-> analysis_data.risk_level,
              sentiment_score |-> analysis_data.sentiment_score,
              automation_recommendation |-> analysis_data.automation_recommendation,
              confidence_score |-> analysis_data.confidence_score,
              token_usage |-> [total_tokens |-> outcome.total_tokens,
                               cost_usd |-> _calculate_cost(outcome.total_tokens),
                               model_used |-> "openrouter/auto"]]

\* a plausible slip: the average is computed before the new cost is added
_update_usage_stats_StaleAverage(usage, token_usage) ==
    LET requests == usage.total_requests + 1
    IN  [total_requests |-> requests,
         total_tokens |-> usage.total_tokens + token_usage.total_tokens,
         total_cost |-> usage.total_cost + token_usage.cost_usd,
         cost_per_analysis |-> <<usage.total_cost, requests>>]

\* _update_usage_stats; an average is kept as the exact fraction <<sum, count>>
_update_usage_stats(usage, token_usage) ==
    LET requests == usage.total_requests + 1
        cost == usage.total_cost + token_usage.cost_usd
    IN  [total_requests |-> requests,
         total_tokens |-> usage.total_tokens + token_usage.total_tokens,
         total_cost |-> cost,
         cost_per_analysis |-> IF requests > 0 THEN <<cost, requests>>
                               ELSE usage.cost_per_analysis]

\* total_usage after one call of analyze_governance_proposal
UsageAfterCall(usage, outcome) ==
    IF outcome.kind \in {"json", "bad_json"}
    THEN _update_usage_stats(usage, analyze_governance_proposal(outcome).token_usage)
    ELSE usage

----------------------------------------------------------------------------
(* EnhancedGovernanceEngine (src/src/enhanced_engine.py)                   *)
(* Wall-clock fields (processed_at, analysis_time_ms) are left out.        *)

\* EnhancedGovernanceEngine.default_config()["automation"]
enhanced_default_config ==
    [enabled |-> TRUE,
     auto_approve |-> [max_risk_level |-> "low", min_sentiment |-> 0,
                       min_confidence |-> 85]]

\* proposal.get("id", proposal.get("title", "unknown")[:8]); title8 is title[:8]
ProposalId(proposal) ==
    IF proposal.id # None THEN proposal.id ELSE proposal.title8

\* a plausible slip: a routine keyword wins over a high-value keyword
_should_use_ai_analysis_RoutineFirst(use_ai, proposal) ==
    IF ~use_ai THEN FALSE
    ELSE LET title == Lower(proposal.title)
             description == Lower(proposal.description)
         IN  IF \E keyword \in routine_keywords :
                    Contains(title, keyword) \/ Contains(description, keyword)
             THEN FALSE
             ELSE TRUE

_should_use_ai_analysis(use_ai, proposal) ==
    IF ~use_ai THEN FALSE
    ELSE LET title == Lower(proposal.title)
             description == Lower(proposal.description)
             has_high_value ==
                 \E keyword \in high_value_keywords :
                     Contains(title, keyword) \/ Contains(description, keyword)
             has_routine ==
                 \E keyword \in routine_keywords :
                     Contains(title, keyword) \/ Contains(description, keyword)
         IN  IF has_high_value THEN TRUE
             ELSE IF has_routine /\ ~has_high_value THEN FALSE
             ELSE TRUE

EnhancedHeuristicConfidence == 70

\* the dict _heuristic_analysis returns
_heuristic_analysis(proposal) ==
    LET title == Lower(proposal.title)
        description == Lower(proposal.description)
        In(words) == \E word \in words :
                         Contains(title, word) \/ Contains(description, word)
        risk_level ==
            IF In({"treasury", "fund", "million", "allocation"}) THEN "high"
            ELSE IF In({"emergency", "critical", "security"}) THEN "critical"
            ELSE IF In({"parameter", "config", "setting"}) THEN "low"
            ELSE "medium"
        risk_factors ==
            CASE risk_level = "high" -> <<"Financial impact on treasury">>
              [] risk_level = "critical" -> <<"Emergency security concern">>
              [] risk_level = "low" -> <<"Configuration change">>
              [] OTHER -> <<"Standard governance review required">>
        Count(words) == Cardinality({word \in words :
                            Contains(title, word) \/ Contains(description, word)})
        positive_count == Count({"improve", "enhance", "benefit", "growth", "optimize"})
        negative_count == Count({"problem", "fix", "emergency", "critical", "issue"})
        sentiment_score ==
            IF positive_count > negative_count THEN 1
            ELSE IF negative_count > positive_count THEN -1
            ELSE 0
        automation_recommendation ==
            IF risk_level = "low" /\ sentiment_score >= 0 THEN "auto_approve"
            ELSE IF risk_level = "critical" THEN "human_review"
            ELSE "human_review"
    IN  [proposal_id |-> ProposalId(proposal),
         analysis_type |-> "heuristic",
         model_used |-> "rule_based",
         risk_level |-> risk_level,
         sentiment_score |-> sentiment_score,
         automation_recommendation |-> automation_recommendation,
         confidence_score |-> EnhancedHeuristicConfidence,
         key_points |-> <<<<"Heuristic analysis", risk_level>>>>,
         risk_factors |-> risk_factors,
         token_usage |-> [total_tokens |-> 0, cost_usd |-> 0]]

\* a plausible slip: a heuristic analysis is charged like a one-token AI call
HeuristicCounted_Charged(cm) ==
    [cm EXCEPT !.heuristic_analyses = @ + 1, !.total_cost = @ + _calculate_cost(1)]

\* the side effect of _heuristic_analysis on cost_metrics
HeuristicCounted(cm) ==
    [cm EXCEPT !.heuristic_analyses = @ + 1]

\* the hard-coded confidence floor of _make_governance_decision (0.75)
EnhancedApproveConfidence == 75

_make_governance_decision(a) ==
    LET recommendation == a.automation_recommendation
        confidence == a.confidence_score
        risk == a.risk_level
    IN  IF recommendation = "auto_approve" /\ confidence >= EnhancedApproveConfidence
        THEN [action |-> "auto_approve",
              reason |-> <<"Low risk", risk, "high confidence", confidence>>,
              vote |-> "approve",
              analysis_cost |-> a.token_usage.cost_usd]
        ELSE IF recommendation = "auto_reject"
        THEN [action |-> "auto_reject",
              reason |-> <<"High risk", risk, "or negative sentiment">>,
              vote |-> "reject",
              analysis_cost |-> a.token_usage.cost_usd]
        ELSE [action |-> "human_review",
              reason |-> <<"Medium/high risk", risk, "requires human judgment">>,
              vote |-> None,
              analysis_cost |-> a.token_usage.cost_usd]

\* the analysis_result dict built from the OpenRouterAnalysis
AiAnalysisResult(proposal, ai_analysis) ==
    [proposal_id |-> ProposalId(proposal),
     analysis_type |-> "ai_powered",
     model_used |-> ai_analysis.token_usage.model_used,
     risk_level |-> ai_analysis.risk_level,
     sentiment_score |-> ai_analysis.sentiment_score,
     automation_recommendation |-> ai_analysis.automation_recommendation,
     confidence_score |-> ai_analysis.confidence_score,
     token_usage |-> ai_analysis.token_usage]

\* _update_cost_metrics; the average is kept as the exact fraction <<sum, count>>
_update_cost_metrics(cm) ==
    IF cm.total_analyses > 0
    THEN [cm EXCEPT !.avg_cost_per_analysis = <<cm.total_cost, cm.total_analyses>>]
    ELSE cm

\* r with the key "decision" added (analysis_result["decision"] = decision)
WithDecision(r, d) ==
    [k \in DOMAIN r \cup {"decision"} |-> IF k = "decision" THEN d ELSE r[k]]

\* processed_proposals[proposal_id] = record
Store(store, proposal_id, record) ==
    [k \in DOMAIN store \cup {proposal_id} |->
        IF k = proposal_id THEN record ELSE store[k]]

\* the analysis_result of analyze_proposal_enhanced before the decision is added
EnhancedAnalysis(use_ai, proposal, outcome) ==
    IF _should_use_ai_analysis(use_ai, proposal) /\ use_ai
    THEN IF outcome.kind = "raise"
         THEN _heuristic_analysis(proposal)
         ELSE AiAnalysisResult(proposal, analyze_governance_proposal(outcome))
    ELSE _heuristic_analysis(proposal)

\* cost_metrics after the analysis step of analyze_proposal_enhanced
EnhancedAnalysisMetrics(cm, use_ai, proposal, outcome) ==
    IF _should_use_ai_analysis(use_ai, proposal) /\ use_ai /\ outcome.kind # "raise"
    THEN [cm EXCEPT !.ai_analyses = @ + 1,
                    !.total_cost =
                        @ + analyze_governance_proposal(outcome).token_usage.cost_usd]
    ELSE HeuristicCounted(cm)

----------------------------------------------------------------------------
(* State after construction *)

\* EnhancedGovernanceEngine.__init__: cost_metrics
InitCostMetrics ==
    [total_analyses |-> 0, ai_analyses |-> 0, heuristic_analyses |-> 0,
     total_cost |-> 0, avg_cost_per_analysis |-> <<0, 1>>]

\* OpenRouterGovernanceAnalyzer.__init__: total_usage
InitTotalUsage ==
    [total_requests |-> 0, total_tokens |-> 0, total_cost |-> 0,
     cost_per_analysis |-> <<0, 1>>]

\* the configurations a caller may pass to EnhancedGovernanceEngine(config)
EnhancedConfigs ==
    [enabled : BOOLEAN,
     auto_approve : [max_risk_level : {"low"}, min_sentiment : {0},
                     min_confidence : {65, 85}]]

\* the event types GovernanceEngine.__init__ gives a callback list
EventTypes ==
    {"new_proposal", "auto_approve", "auto_reject", "human_review", "analysis_complete"}

\* GovernanceEngine.__init__: callbacks
NoCallbacks == [event_type \in EventTypes |-> <<>>]

\* the engines' fields after construction
InitRest ==
    /\ cost_metrics = InitCostMetrics
    /\ processed_proposals = <<>>
    /\ total_usage = InitTotalUsage

\* OpenRouterGovernanceAnalyzer.__init__: self.session = None (0 is None, the
\* sessions made later are 1, 2, ...); no session made or closed yet
NoSession == [current |-> 0, opened |-> 0, closed |-> {}]

\* no event emitted yet, no monitoring loop and no task started
InitIdle ==
    /\ callbacks = NoCallbacks
    /\ emitted = <<>>
    /\ delivered = <<>>
    /\ loop = [kind |-> None]
    /\ session = NoSession
    /\ tasks = <<>>

----------------------------------------------------------------------------
(* Specification SpecDecision: one call of                                 *)
(* GovernanceEngine.make_governance_decision, with any analysis under any  *)
(* policy configuration.                                                   *)
(* Specification SpecRules: the same, or one call of                       *)
(* AgoraAgent.apply_governance_rules under the rules load_governance_rules *)
(* gives.                                                                  *)

InitDecision ==
    /\ config \in PolicyConfigs
    /\ econfig = enhanced_default_config
    /\ use_ai_analysis = FALSE
    /\ InitRest
    /\ InitIdle
    /\ call \in [method : {"make_governance_decision"}, analysis : Analyses]
    /\ ret = Pending

InitRules ==
    /\ config \in PolicyConfigs
    /\ econfig = enhanced_default_config
    /\ use_ai_analysis = FALSE
    /\ InitRest
    /\ InitIdle
    /\ call \in [method : {"make_governance_decision", "apply_governance_rules"},
                 analysis : Analyses]
    /\ ret = Pending

MakeGovernanceDecision ==
    /\ call.method = "make_governance_decision"
    /\ ret = Pending
    /\ ret' = make_governance_decision(config, call.analysis)
    /\ UNCHANGED <<config, econfig, use_ai_analysis, cost_metrics,
                   processed_proposals, total_usage, call>>
    /\ UNCHANGED pipelineVars

ApplyGovernanceRules ==
    /\ call.method = "apply_governance_rules"
    /\ ret = Pending
    /\ ret' = apply_governance_rules(load_governance_rules, call.analysis)
    /\ UNCHANGED <<config, econfig, use_ai_analysis, cost_metrics,
                   processed_proposals, total_usage, call>>
    /\ UNCHANGED pipelineVars

NextDecision == MakeGovernanceDecision

SpecDecision == InitDecision /\ [][NextDecision]_vars

NextRules == MakeGovernanceDecision \/ ApplyGovernanceRules

SpecRules == InitRules /\ [][NextRules]_vars

\* make_governance_decision(analysis) has returned or raised
DecisionCall == call.method = "make_governance_decision" /\ ret # Pending

\* make_governance_decision has returned a dict
Decided == DecisionCall /\ Has(ret, "action")

\* ret.get("vote")
Vote(d) == IF Has(d, "vote") THEN d.vote ELSE None

\* C1: make_governance_decision returns auto_approve (with vote approve) if and
\* only if automation is enabled, the risk level equals auto_approve.max_risk_level,
\* the sentiment is >= min_sentiment and the confidence is >= min_confidence; with
\* max_risk_level = medium a low-risk analysis is not auto-approved.
C1_AutoApproveIffExactMatch ==
    DecisionCall =>
        /\ Has(ret, "action")
        /\ (ret.action = "auto_approve") <=>
              /\ config.enabled
              /\ call.analysis.risk_level = config.auto_approve.max_risk_level
              /\ call.analysis.sentiment_score >= config.auto_approve.min_sentiment
              /\ call.analysis.confidence_score >= config.auto_approve.min_confidence
        /\ ret.action = "auto_approve" => Vote(ret) = "approve"
        /\ (config.auto_approve.max_risk_level = "medium" /\ call.analysis.risk_level = "low")
              => ret.action # "auto_approve"

\* C1 witness: a medium-risk analysis auto-approved under max_risk_level = medium
C1_Witness ==
    /\ Decided
    /\ ret.action = "auto_approve"
    /\ config.auto_approve.max_risk_level = "medium"
    /\ call.analysis.risk_level = "medium"

\* C3: with automation disabled every analysis gets human_review with reason
\* "Automation disabled" and confidence 1.0, never auto_approve or auto_reject.
C3_DisabledAlwaysHumanReview ==
    (DecisionCall /\ ~config.enabled) =>
        /\ Has(ret, "action")
        /\ ret.action = "human_review"
        /\ ret.reason = <<"Automation disabled">>
        /\ ret.confidence = 100

\* C3 witness: automation disabled, and an analysis the approve rule would match
C3_Witness ==
    /\ Decided
    /\ ~config.enabled
    /\ call.analysis.risk_level = config.auto_approve.max_risk_level
    /\ call.analysis.sentiment_score >= config.auto_approve.min_sentiment
    /\ call.analysis.confidence_score >= config.auto_approve.min_confidence
    /\ ret.action = "human_review"

\* C5: with automation enabled the decision is auto_reject (vote reject) exactly
\* when the approve condition did not match and the risk level equals
\* auto_reject.min_risk_level or the sentiment is <= auto_reject.max_sentiment;
\* the approve test comes first.
C5_AutoRejectIffNotApprovedAndRejectRule ==
    (DecisionCall /\ config.enabled) =>
        LET approve == /\ call.analysis.risk_level = config.auto_approve.max_risk_level
                       /\ call.analysis.sentiment_score >= config.auto_approve.min_sentiment
                       /\ call.analysis.confidence_score >= config.auto_approve.min_confidence
            reject == \/ call.analysis.risk_level = config.auto_reject.min_risk_level
                      \/ call.analysis.sentiment_score <= config.auto_reject.max_sentiment
        IN  /\ Has(ret, "action")
            /\ (ret.action = "auto_reject") <=> (~approve /\ reject)
            /\ ret.action = "auto_reject" => Vote(ret) = "reject"
            /\ (approve /\ reject) => ret.action = "auto_approve"

\* C5 witness: an auto_reject on the sentiment alone, the risk being below the level
C5_Witness ==
    /\ Decided
    /\ config.enabled
    /\ ret.action = "auto_reject"
    /\ call.analysis.risk_level # config.auto_reject.min_risk_level
    /\ call.analysis.sentiment_score <= config.auto_reject.max_sentiment

\* C6: make_governance_decision is total: for every risk level, sentiment,
\* confidence and automation flag it raises nothing and returns one action of
\* {auto_approve, auto_reject, human_review}; it returns human_review when neither
\* rule matches; the vote is approve iff auto_approve, reject iff auto_reject and
\* null or absent iff human_review.
C6_TotalAndVoteMatchesAction ==
    DecisionCall =>
        LET approve == /\ call.analysis.risk_level = config.auto_approve.max_risk_level
                       /\ call.analysis.sentiment_score >= config.auto_approve.min_sentiment
                       /\ call.analysis.confidence_score >= config.auto_approve.min_confidence
            reject == \/ call.analysis.risk_level = config.auto_reject.min_risk_level
                      \/ call.analysis.sentiment_score <= config.auto_reject.max_sentiment
        IN  /\ ~Has(ret, "raised")
            /\ Has(ret, "action")
            /\ ret.action \in {"auto_approve", "auto_reject", "human_review"}
            /\ (~approve /\ ~reject) => ret.action = "human_review"
            /\ (Vote(ret) = "approve") <=> (ret.action = "auto_approve")
            /\ (Vote(ret) = "reject") <=> (ret.action = "auto_reject")
            /\ (Vote(ret) = None) <=> (ret.action = "human_review")

\* C6 witness: automation enabled, neither rule matches, human_review with a null vote
C6_Witness ==
    /\ Decided
    /\ config.enabled
    /\ call.analysis.risk_level # config.auto_approve.max_risk_level
    /\ call.analysis.risk_level # config.auto_reject.min_risk_level
    /\ call.analysis.sentiment_score > config.auto_reject.max_sentiment
    /\ ret.action = "human_review"
    /\ Has(ret, "vote")
    /\ ret.vote = None

\* the approve and the reject rule can both match some analysis only if the two
\* risk levels coincide or the sentiment ranges overlap
SeparatedPolicy(cfg) ==
    /\ cfg.auto_approve.max_risk_level # cfg.auto_reject.min_risk_level
    /\ cfg.auto_approve.min_sentiment > cfg.auto_reject.max_sentiment

\* C7 as stated: under every policy configuration no analysis satisfies both the
\* auto-approve and the auto-reject condition, and an analysis at the auto-reject
\* risk level is never auto-approved.
C7_NeverBothAnyPolicy ==
    Decided =>
        /\ ~(/\ AutoApproveCriteria(config.auto_approve, call.analysis)
             /\ AutoRejectCriteria(config.auto_reject, call.analysis))
        /\ call.analysis.risk_level = config.auto_reject.min_risk_level
              => ret.action # "auto_approve"

\* C7 amended: under every policy configuration whose auto_approve.max_risk_level
\* differs from auto_reject.min_risk_level and whose auto_approve.min_sentiment is
\* above auto_reject.max_sentiment (every default configuration of the repository
\* is one), and under AgoraAgent's rules, no analysis satisfies both conditions and
\* an analysis at the auto-reject risk level is never auto-approved.
C7_NeverBothSeparatedPolicy ==
    /\ (Decided /\ SeparatedPolicy(config)) =>
          /\ ~(/\ AutoApproveCriteria(config.auto_approve, call.analysis)
               /\ AutoRejectCriteria(config.auto_reject, call.analysis))
          /\ call.analysis.risk_level = config.auto_reject.min_risk_level
                => ret.action # "auto_approve"
    /\ (call.method = "apply_governance_rules" /\ ret # Pending) =>
          /\ ~(/\ AgoraApproveCriteria(load_governance_rules, call.analysis)
               /\ AgoraRejectCriteria(load_governance_rules, call.analysis))
          /\ call.analysis.risk_level = "critical" => ret.action # "auto_approve"

\* C7 witness: a separated policy, automation enabled, an analysis at the
\* auto-reject risk level that clears the approve rule's sentiment and confidence
\* floors, and the decision is auto_reject
C7_Witness ==
    /\ Decided
    /\ SeparatedPolicy(config)
    /\ config.enabled
    /\ call.analysis.risk_level = config.auto_reject.min_risk_level
    /\ call.analysis.sentiment_score >= config.auto_approve.min_sentiment
    /\ call.analysis.confidence_score >= config.auto_approve.min_confidence
    /\ ret.action = "auto_reject"

----------------------------------------------------------------------------
(* Specification SpecAnalyzer: one call of a heuristic analyzer,           *)
(* ProposalAnalyzer._analyze_heuristic(title, description) or              *)
(* EnhancedGovernanceEngine._heuristic_analysis(proposal), on any text     *)
(* with at most MaxWords keyword occurrences.                              *)

HeuristicTexts == TextPairs(HeuristicKeywords, MaxWords)

HeuristicCalls ==
    {[method |-> "_analyze_heuristic", title |-> t.title, description |-> t.description] :
        t \in HeuristicTexts}
      \cup
    {[method |-> "_heuristic_analysis",
      proposal |-> [id |-> "prop_001", title8 |-> "Proposal",
                    title |-> t.title, description |-> t.description]] :
        t \in HeuristicTexts}

InitAnalyzer ==
    /\ config = default_config
    /\ econfig = enhanced_default_config
    /\ use_ai_analysis = FALSE
    /\ InitRest
    /\ InitIdle
    /\ call \in HeuristicCalls
    /\ ret = Pending

AnalyzeHeuristic ==
    /\ call.method = "_analyze_heuristic"
    /\ ret = Pending
    /\ ret' = _analyze_heuristic(call.title, call.description)
    /\ UNCHANGED <<config, econfig, use_ai_analysis, cost_metrics,
                   processed_proposals, total_usage, call>>
    /\ UNCHANGED pipelineVars

HeuristicAnalysis ==
    /\ call.method = "_heuristic_analysis"
    /\ ret = Pending
    /\ ret' = _heuristic_analysis(call.proposal)
    /\ cost_metrics' = HeuristicCounted(cost_metrics)
    /\ UNCHANGED <<config, econfig, use_ai_analysis, processed_proposals,
                   total_usage, call>>
    /\ UNCHANGED pipelineVars

NextAnalyzer == AnalyzeHeuristic \/ HeuristicAnalysis

SpecAnalyzer == InitAnalyzer /\ [][NextAnalyzer]_vars

\* a heuristic analyzer has returned
HeuristicReturned ==
    call.method \in {"_analyze_heuristic", "_heuristic_analysis"} /\ ret # Pending

\* C10: neither heuristic analyzer ever recommends auto_reject: the recommendation
\* is auto_approve exactly when risk = low and sentiment >= 0, and human_review in
\* every other case, risk = critical included.
C10_HeuristicNeverRecommendsReject ==
    HeuristicReturned =>
        /\ ret.automation_recommendation # "auto_reject"
        /\ (ret.automation_recommendation = "auto_approve")
              <=> (ret.risk_level = "low" /\ ret.sentiment_score >= 0)
        /\ (ret.automation_recommendation = "human_review")
              <=> ~(ret.risk_level = "low" /\ ret.sentiment_score >= 0)

\* C10 witness: a text scored critical with negative sentiment, recommended for
\* human review
C10_Witness ==
    /\ HeuristicReturned
    /\ ret.risk_level = "critical"
    /\ ret.sentiment_score = -1
    /\ ret.automation_recommendation = "human_review"

\* the keywords written, in any letter case, in the title or the description
\* the heuristic analyzer was called with
CallWords ==
    LET text == IF call.method = "_analyze_heuristic"
                THEN call.title \cup call.description
                ELSE call.proposal.title \cup call.proposal.description
    IN  {occ[1] : occ \in text}

\* C11: both heuristic analyzers score risk first-match-wins in the order
\* {treasury, fund, million, allocation} -> high, {emergency, critical, security}
\* -> critical, {parameter, config, setting} -> low, else medium, matching
\* case-insensitively over title and description; sentiment is +1 when more
\* positive than negative words match, -1 when fewer, 0 when equal, never +2 or -2.
C11_HeuristicRiskAndSentimentRule ==
    HeuristicReturned =>
        LET words == CallWords
            pos == Cardinality(words \cap
                       {"improve", "enhance", "benefit", "growth", "optimize"})
            neg == Cardinality(words \cap
                       {"problem", "fix", "emergency", "critical", "issue"})
        IN  /\ ret.risk_level =
                  IF words \cap {"treasury", "fund", "million", "allocation"} # {}
                  THEN "high"
                  ELSE IF words \cap {"emergency", "critical", "security"} # {}
                  THEN "critical"
                  ELSE IF words \cap {"parameter", "config", "setting"} # {}
                  THEN "low"
                  ELSE "medium"
            /\ ret.sentiment_score =
                  IF pos > neg THEN 1 ELSE IF neg > pos THEN -1 ELSE 0
            /\ ret.sentiment_score \in {-1, 0, 1}

\* C11 witness: a capitalized treasury keyword in the title and an emergency keyword
\* in the description: scored high, not critical, with sentiment -1
C11_Witness ==
    /\ HeuristicReturned
    /\ <<"treasury", "Capitalized">> \in
           (IF call.method = "_analyze_heuristic" THEN call.title
            ELSE call.proposal.title)
    /\ "emergency" \in CallWords
    /\ ret.risk_level = "high"
    /\ ret.sentiment_score = -1

----------------------------------------------------------------------------
(* Specification SpecSelector: one call of                                 *)
(* EnhancedGovernanceEngine._should_use_ai_analysis(proposal), with or     *)
(* without an API key, on any text with at most MaxWords occurrences of    *)
(* the selector's keywords.                                                *)

SelectorCalls(n) ==
    {[method |-> "_should_use_ai_analysis",
      proposal |-> [id |-> "prop_001", title8 |-> "Proposal",
                    title |-> t.title, description |-> t.description]] :
        t \in TextPairs(SelectorKeywords, n)}

InitSelector ==
    /\ config = default_config
    /\ econfig = enhanced_default_config
    /\ use_ai_analysis \in BOOLEAN
    /\ InitRest
    /\ InitIdle
    /\ call \in SelectorCalls(MaxWords)
    /\ ret = Pending

ShouldUseAiAnalysis ==
    /\ call.method = "_should_use_ai_analysis"
    /\ ret = Pending
    /\ ret' = [value |-> _should_use_ai_analysis(use_ai_analysis, call.proposal)]
    /\ UNCHANGED <<config, econfig, use_ai_analysis, cost_metrics,
                   processed_proposals, total_usage, call>>
    /\ UNCHANGED pipelineVars

NextSelector == ShouldUseAiAnalysis

SpecSelector == InitSelector /\ [][NextSelector]_vars

\* _should_use_ai_analysis has returned
SelectorReturned == call.method = "_should_use_ai_analysis" /\ ret # Pending

\* C12: _should_use_ai_analysis follows the precedence table: no AI backend ->
\* heuristic whatever the keywords; else any high-value keyword -> ai, even with a
\* routine keyword present; else a routine keyword -> heuristic; else ai.  The call
\* leaves cost_metrics and processed_proposals as they were.
C12_SelectorPrecedenceTable ==
    SelectorReturned =>
        LET words == {occ[1] : occ \in
                         call.proposal.title \cup call.proposal.description}
            has_high_value ==
                words \cap {"treasury", "fund", "allocation", "budget", "million",
                            "emergency", "security", "upgrade", "protocol",
                            "critical", "strategic"} # {}
            has_routine ==
                words \cap {"parameter", "setting", "config", "minor",
                            "adjustment", "update"} # {}
        IN  /\ ret.value = (IF ~use_ai_analysis THEN FALSE
                            ELSE IF has_high_value THEN TRUE
                            ELSE IF has_routine THEN FALSE
                            ELSE TRUE)
            /\ cost_metrics = InitCostMetrics
            /\ processed_proposals = <<>>

\* C12 witness: with a backend, a text with a high-value keyword and a routine
\* keyword is sent to the AI
C12_Witness ==
    /\ SelectorReturned
    /\ use_ai_analysis
    /\ <<"budget", "Capitalized">> \in call.proposal.title
    /\ <<"minor", "lower">> \in call.proposal.description
    /\ ret.value = TRUE

----------------------------------------------------------------------------
(* Specification SpecEnhanced: an EnhancedGovernanceEngine built with any  *)
(* configuration of EnhancedConfigs, with or without an API key, on which  *)
(* analyze_proposal_enhanced is called up to MaxAnalyses times.            *)

Occ(style, words) == {<<w, style>> : w \in words}

\* "Parameter Update - Increase Fee Cap", a description with "parameter", "config"
Scenario1Proposal ==
    [id |-> "param_001", title8 |-> "Paramete",
     title |-> Occ("Capitalized", {"parameter", "update"}),
     description |-> Occ("lower", {"parameter", "config"})]

\* a description with "emergency" and "critical"
Scenario2Proposal ==
    [id |-> "emergency_001", title8 |-> "Emergenc",
     title |-> Occ("Capitalized", {"emergency", "security", "fix"}),
     description |-> Occ("lower", {"emergency", "critical"})]

\* the same with three positive words: the heuristic sentiment is 0
Scenario2PositiveProposal ==
    [id |-> "emergency_002", title8 |-> "Emergenc",
     title |-> Occ("Capitalized", {"emergency"}),
     description |-> Occ("lower", {"emergency", "critical", "improve", "enhance"})]

\* a description with "treasury", "fund", "million"
Scenario3Proposal ==
    [id |-> "treasury_001", title8 |-> "Treasury",
     title |-> Occ("Capitalized", {"treasury"}),
     description |-> Occ("lower", {"treasury", "fund", "million"})]

\* a proposal dict without "id" and without any keyword
PlainProposal ==
    [id |-> None, title8 |-> "Communit", title |-> {}, description |-> {}]

ScenarioProposals ==
    {Scenario1Proposal, Scenario2Proposal, Scenario2PositiveProposal,
     Scenario3Proposal, PlainProposal}

InitEnhanced ==
    /\ config = default_config
    /\ econfig \in EnhancedConfigs
    /\ use_ai_analysis \in BOOLEAN
    /\ InitRest
    /\ InitIdle
    /\ call = [method |-> None]
    /\ ret = Pending

\* the dict analyze_proposal_enhanced returns and stores
analyze_proposal_enhanced(use_ai, proposal, outcome) ==
    LET analysis_result == EnhancedAnalysis(use_ai, proposal, outcome)
        decision == _make_governance_decision(analysis_result)
    IN  WithDecision(analysis_result, decision)

AnalyzeProposalEnhanced ==
    \E proposal \in ScenarioProposals, outcome \in AIOutcomes :
        LET r == analyze_proposal_enhanced(use_ai_analysis, proposal, outcome)
            ai == _should_use_ai_analysis(use_ai_analysis, proposal) /\ use_ai_analysis
            cm == EnhancedAnalysisMetrics(cost_metrics, use_ai_analysis, proposal, outcome)
        IN  /\ cost_metrics.total_analyses < MaxAnalyses
            /\ cost_metrics' =
                   _update_cost_metrics([cm EXCEPT !.total_analyses = @ + 1])
            /\ total_usage' = IF ai THEN UsageAfterCall(total_usage, outcome)
                              ELSE total_usage
            /\ processed_proposals' = Store(processed_proposals, r.proposal_id, r)
            /\ call' = [method |-> "analyze_proposal_enhanced", proposal |-> proposal,
                        outcome |-> IF ai THEN outcome ELSE [kind |-> None]]
            /\ ret' = r
            /\ UNCHANGED <<config, econfig, use_ai_analysis>>
            /\ UNCHANGED pipelineVars

NextEnhanced == AnalyzeProposalEnhanced

SpecEnhanced == InitEnhanced /\ [][NextEnhanced]_vars

\* analyze_proposal_enhanced has returned
EnhancedReturned == call.method = "analyze_proposal_enhanced"

\* C2: EnhancedGovernanceEngine decides auto_approve only for an analysis whose
\* risk level equals the configured auto_approve.max_risk_level, whose sentiment is
\* >= auto_approve.min_sentiment and whose confidence is >= auto_approve.min_confidence;
\* the analyzer's recommendation alone cannot cause auto_approve.
C2_EnhancedApprovesOnlyWithinPolicy ==
    (EnhancedReturned /\ ret.decision.action = "auto_approve") =>
        /\ ret.risk_level = econfig.auto_approve.max_risk_level
        /\ ret.sentiment_score >= econfig.auto_approve.min_sentiment
        /\ ret.confidence_score >= econfig.auto_approve.min_confidence

\* C4: with automation.enabled = false analyze_proposal_enhanced decides
\* human_review with reason "Automation disabled" for any proposal and analysis.
C4_EnhancedDisabledAlwaysHumanReview ==
    (EnhancedReturned /\ ~econfig.enabled) =>
        /\ ret.decision.action = "human_review"
        /\ ret.decision.reason = <<"Automation disabled">>

\* C8: scenario 1 ("Parameter Update - Increase Fee Cap", description with
\* "parameter" and "config") takes the heuristic path, is scored risk low and
\* sentiment 0 with recommendation auto_approve, and under the policy max risk low,
\* min sentiment 0, min confidence <= 0.65 the decision is auto_approve.
C8_Scenario1AutoApproved ==
    (/\ EnhancedReturned
     /\ call.proposal = Scenario1Proposal
     /\ econfig.enabled
     /\ econfig.auto_approve.max_risk_level = "low"
     /\ econfig.auto_approve.min_sentiment = 0
     /\ econfig.auto_approve.min_confidence <= 65) =>
        /\ ret.analysis_type = "heuristic"
        /\ ret.risk_level = "low"
        /\ ret.sentiment_score = 0
        /\ ret.automation_recommendation = "auto_approve"
        /\ ret.decision.action = "auto_approve"

\* C9: scenario 2: a proposal whose description contains "emergency" and
\* "critical", analysed by the heuristic, is scored risk critical and the decision
\* is auto_reject, whatever the sentiment.
C9_Scenario2AutoRejected ==
    (/\ EnhancedReturned
     /\ Contains(Lower(call.proposal.description), "emergency")
     /\ Contains(Lower(call.proposal.description), "critical")
     /\ ret.analysis_type = "heuristic"
     /\ econfig.enabled) =>
        /\ ret.risk_level = "critical"
        /\ ret.decision.action = "auto_reject"

----------------------------------------------------------------------------
(* Event bus of GovernanceEngine: add_callback and emit_event              *)
(* (src/src/governance_engine.py)                                          *)

\* most callbacks registered on one engine
MaxHandlers == 2

\* the callables a caller may register: a plain function or a coroutine function,
\* which returns or raises an Exception when called
Handlers == [id : {"h1", "h2"}, is_coroutine : BOOLEAN, raises : BOOLEAN]

\* the event types a caller may name: the five of __init__ and one that is not
EventNames == EventTypes \cup {"unknown_event"}

\* add_callback: the callback is appended when the event type has a list
add_callback(cbs, event_type, callback) ==
    IF event_type \in DOMAIN cbs
    THEN [cbs EXCEPT ![event_type] = Append(@, callback)]
    ELSE cbs

\* one pass of the loop body of emit_event: the callback is awaited when it is a
\* coroutine function and called otherwise; an Exception it raises is caught
Invoke(callback, event_type, data) ==
    [callback |-> callback.id, event_type |-> event_type, data |-> data,
     awaited |-> callback.is_coroutine, caught |-> callback.raises]

\* the callback invocations of `for callback in handlers`, in order
RECURSIVE Deliveries(_, _, _)
Deliveries(handlers, event_type, data) ==
    IF handlers = <<>> THEN <<>>
    ELSE <<Invoke(Head(handlers), event_type, data)>>
             \o Deliveries(Tail(handlers), event_type, data)

\* the invocations made until a callback raises, that one included
RECURSIVE DeliveriesUntilRaise(_, _, _)
DeliveriesUntilRaise(handlers, event_type, data) ==
    IF handlers = <<>> THEN <<>>
    ELSE IF Head(handlers).raises
    THEN <<Invoke(Head(handlers), event_type, data)>>
    ELSE <<Invoke(Head(handlers), event_type, data)>>
             \o DeliveriesUntilRaise(Tail(handlers), event_type, data)

\* a plausible slip: the loop body has no try/except
emit_event_NoTry(cbs, event_type, data) ==
    LET handlers == IF event_type \in DOMAIN cbs THEN cbs[event_type] ELSE <<>>
    IN  [deliveries |-> DeliveriesUntilRaise(handlers, event_type, data),
         outcome |-> IF \E i \in 1..Len(handlers) : handlers[i].raises
                     THEN Raised("Exception") ELSE [returned |-> None]]

\* emit_event: self.callbacks.get(event_type, []) is walked in list order
emit_event(cbs, event_type, data) ==
    LET handlers == IF event_type \in DOMAIN cbs THEN cbs[event_type] ELSE <<>>
    IN  [deliveries |-> Deliveries(handlers, event_type, data),
         outcome |-> [returned |-> None]]

\* the number of callbacks registered
Registered(cbs) ==
    LET RECURSIVE Sum(_)
        Sum(S) == IF S = {} THEN 0
                  ELSE LET t == CHOOSE t \in S : TRUE
                       IN  Len(cbs[t]) + Sum(S \ {t})
    IN  Sum(DOMAIN cbs)

(* Specification SpecEvents: callbacks are registered on a GovernanceEngine, *)
(* then one event is published.                                             *)

InitEvents ==
    /\ config = default_config
    /\ econfig = enhanced_default_config
    /\ use_ai_analysis = FALSE
    /\ InitRest
    /\ InitIdle
    /\ call = [method |-> None]
    /\ ret = Pending

AddCallback ==
    \E event_type \in EventNames, callback \in Handlers :
        /\ emitted = <<>>
        /\ Registered(callbacks) < MaxHandlers
        /\ callbacks' = add_callback(callbacks, event_type, callback)
        /\ UNCHANGED <<config, econfig, use_ai_analysis, cost_metrics,
                       processed_proposals, total_usage, call, ret,
                       emitted, delivered, loop, session, tasks>>

EmitEvent ==
    \E event_type \in EventNames, data \in {"result_1", "result_2"} :
        LET e == emit_event(callbacks, event_type, data)
        IN  /\ emitted = <<>>
            /\ emitted' = Append(emitted, [event_type |-> event_type, data |-> data])
            /\ delivered' = delivered \o e.deliveries
            /\ call' = [method |-> "emit_event", event_type |-> event_type,
                        data |-> data]
            /\ ret' = e.outcome
            /\ UNCHANGED <<config, econfig, use_ai_analysis, cost_metrics,
                           processed_proposals, total_usage, callbacks, loop,
                           session, tasks>>

NextEvents == AddCallback \/ EmitEvent

SpecEvents == InitEvents /\ [][NextEvents]_vars

\* emit_event(event_type, data) has ended
EmitEnded == call.method = "emit_event"

\* C13: emit_event(type, payload) invokes every callback registered for the type
\* once per registration, in registration order, with the payload; an exception
\* raised by a callback neither reaches the publisher nor keeps a later callback
\* from being invoked; with no callback for the type emit_event just returns.
C13_EveryHandlerOnceInOrder ==
    EmitEnded =>
        LET handlers == IF call.event_type \in DOMAIN callbacks
                        THEN callbacks[call.event_type] ELSE <<>>
        IN  /\ ret = [returned |-> None]
            /\ Len(delivered) = Len(handlers)
            /\ \A i \in 1..Len(handlers) :
                  /\ delivered[i].callback = handlers[i].id
                  /\ delivered[i].event_type = call.event_type
                  /\ delivered[i].data = call.data

\* C13 witness: two callbacks on the published type, the first raises, and the
\* second is invoked after it
C13_Witness ==
    /\ EmitEnded
    /\ call.event_type = "auto_reject"
    /\ Len(callbacks["auto_reject"]) = 2
    /\ callbacks["auto_reject"][1].raises
    /\ callbacks["auto_reject"][1].id = "h1"
    /\ callbacks["auto_reject"][2].id = "h2"
    /\ Len(delivered) = 2
    /\ delivered[1].caught
    /\ delivered[2].callback = "h2"
    /\ ret = [returned |-> None]

----------------------------------------------------------------------------
(* Proposal pipelines: GovernanceEngine.process_proposal                   *)
(* (src/src/governance_engine.py) and AgoraAgent.process_proposal          *)
(* (src/agora.py)                                                          *)

\* `await x`: the coroutine a call of an `async def` returns is awaited and gives
\* its value; any other object raises TypeError
Await(x) ==
    IF Has(x, "coroutine") THEN x.coroutine
    ELSE Raised("TypeError: object can't be used in 'await' expression")

\* What the AI backend of ProposalAnalyzer does: "unavailable" (no litellm),
\* "fails" (_analyze_with_ai raises) or "reply" with the parsed analysis
AnalyzerOutcomes ==
    {[kind |-> "unavailable"], [kind |-> "fails"],
     [kind |-> "reply",
      data |-> [risk_level |-> "low", risk_factors |-> <<>>, sentiment_score |-> 1,
                key_points |-> <<>>, estimated_impact |-> "",
                automation_recommendation |-> "auto_approve",
                confidence_score |-> 80]]}

\* ProposalAnalyzer.analyze_proposal: a plain `def`, it returns the ProposalAnalysis
ProposalAnalyzer_analyze_proposal(ai, title, description) ==
    IF ai.kind = "reply" THEN ai.data
    ELSE _analyze_heuristic(title, description)

\* What fetching description_link gives: a JSON document, or a failure
MetadataFetches ==
    {[kind |-> "json", title |-> Occ("Capitalized", {"parameter"}),
      description |-> Occ("lower", {"parameter", "config"})],
     [kind |-> "fails"]}

\* SolanaGovernanceClient.get_proposal_metadata: an `async def`, its call returns a
\* coroutine; every Exception inside is caught
get_proposal_metadata(description_link, fetch) ==
    [coroutine |->
        IF ~description_link.http THEN [title |-> {}, description |-> {}]
        ELSE IF fetch.kind = "json"
        THEN [title |-> fetch.title, description |-> fetch.description]
        ELSE [title |-> {}, description |-> {}]]

\* GovernanceEngine.apply_dao_specific_rules; description is description_link.lower()
apply_dao_specific_rules(cfg, proposal, analysis) ==
    IF "emergency_keywords" \notin DOMAIN cfg
    THEN Raised("KeyError: emergency_keywords")
    ELSE LET description == Lower(proposal.description_link.text)
             emergency == IF \E keyword \in cfg.emergency_keywords :
                                 Contains(description, keyword)
                          THEN [analysis EXCEPT
                                   !.risk_level = "critical",
                                   !.risk_factors =
                                       Append(@, "Emergency proposal detected")]
                          ELSE analysis
         IN  IF Contains(description, "treasury") \/ Contains(description, "fund")
             THEN [emergency EXCEPT
                      !.risk_level = "high",
                      !.risk_factors = Append(@, "Treasury impact requires review")]
             ELSE emergency

\* GovernanceEngine.analyze_proposal
GovernanceEngine_analyze_proposal(cfg, proposal, ai, fetch) ==
    LET metadata == Await(get_proposal_metadata(proposal.description_link, fetch))
        analysis == Await(ProposalAnalyzer_analyze_proposal(
                              ai, metadata.title, metadata.description))
    IN  IF Has(analysis, "raised") THEN analysis
        ELSE apply_dao_specific_rules(cfg, proposal, analysis)

\* the dict process_proposal returns from its except branch
ErrorResult(proposal, e) ==
    [proposal |-> [public_key |-> proposal.public_key], error |-> e]

\* the payload of an event about the proposal with this key
Payload(public_key, keys) == [public_key |-> public_key, keys |-> keys]

\* GovernanceEngine.process_proposal: what it returns, the record it stores (None
\* when it stores none) and the events it emits, in order
process_proposal(cfg, proposal, ai, fetch) ==
    LET analysis == GovernanceEngine_analyze_proposal(cfg, proposal, ai, fetch)
        decision == make_governance_decision(cfg, analysis)
        result == [proposal |-> [public_key |-> proposal.public_key,
                                 name |-> proposal.name],
                   analysis |-> analysis,
                   decision |-> decision]
        data == Payload(proposal.public_key, {"proposal", "analysis", "decision"})
    IN  IF Has(analysis, "raised")
        THEN [result |-> ErrorResult(proposal, analysis.raised),
              record |-> None, emits |-> <<>>]
        ELSE IF Has(decision, "raised")
        THEN [result |-> ErrorResult(proposal, decision.raised),
              record |-> None, emits |-> <<>>]
        ELSE [result |-> result,
              record |-> result,
              emits |-> <<[event_type |-> "analysis_complete", data |-> data],
                          [event_type |-> decision.action, data |-> data]>>]

\* AgoraAgent.process_proposal: it has no try, an exception leaves it
AgoraAgent_process_proposal(rules, proposal, ai) ==
    LET analysis == Await(ProposalAnalyzer_analyze_proposal(
                              ai, proposal.title, proposal.description))
    IN  IF Has(analysis, "raised") THEN analysis
        ELSE [proposal |-> [id |-> proposal.public_key],
              analysis |-> analysis,
              decision |-> apply_governance_rules(rules, analysis)]

----------------------------------------------------------------------------
(* Monitoring loops:                                                       *)
(*   "monitor_governance"  SolanaGovernanceClient.monitor_governance with  *)
(*                         callback GovernanceEngine.handle_new_proposals  *)
(*   "run"                 AgoraAgent.run                                  *)
(*   "start_monitoring"    GovernanceMonitor.start_monitoring              *)
(* A step of the loop is the code between two awaits.                      *)

\* most proposals the chain holds
MaxProposals == 2

ProposalKeys == 1..MaxProposals

LoopKinds == {"monitor_governance", "run", "start_monitoring"}

\* the proposal with this public key, as the discovery step returns it
MonitoredProposal(public_key) ==
    [public_key |-> public_key,
     name |-> IF public_key = 1 THEN Occ("Capitalized", {"emergency", "fix"})
              ELSE Occ("Capitalized", {"parameter", "update"}),
     title |-> IF public_key = 1 THEN Occ("Capitalized", {"emergency", "fix"})
               ELSE Occ("Capitalized", {"parameter", "update"}),
     description |-> IF public_key = 1 THEN Occ("lower", {"critical"})
                     ELSE Occ("lower", {"config"}),
     description_link |-> [http |-> public_key # 1, text |-> {}]]

\* the lists a scan can return: the proposals of any subset, in any order
Discoveries ==
    {found \in UNION {[1..n -> ProposalKeys] : n \in 0..MaxProposals} :
        \A i, j \in DOMAIN found : i # j => found[i] # found[j]}

\* the callbacks AgoraLiveAgent.setup_callbacks registers
LiveCallbacks(raises) ==
    [event_type \in EventTypes |->
        IF event_type = "analysis_complete" THEN <<>>
        ELSE <<[id |-> event_type, is_coroutine |-> TRUE, raises |-> raises]>>]

\* the seconds slept after a failed iteration
BackoffSeconds(kind) ==
    CASE kind = "monitor_governance" -> 60
      [] kind = "run" -> 30
      [] OTHER -> 30   \* start_monitoring sleeps its interval (default 30)

\* a plausible slip: the scan result is handed on without the known-proposal filter
NewProposals_Unfiltered(found, known) == found

\* the proposals of `found` that are not in `known`, in order
NewProposals(found, known) == SelectSeq(found, LAMBDA pk : pk \notin known)

\* the keys of a sequence of proposal keys
Range(seq) == {seq[i] : i \in DOMAIN seq}

InitMonitor ==
    /\ config = default_config
    /\ econfig = enhanced_default_config
    /\ use_ai_analysis = FALSE
    /\ InitRest
    /\ callbacks \in {NoCallbacks, LiveCallbacks(FALSE), LiveCallbacks(TRUE)}
    /\ emitted = <<>>
    /\ delivered = <<>>
    /\ loop \in [kind : LoopKinds, pc : {"scan"}, known : {{}}, batch : {<<>>},
                 i : {0}, stage : {None}, attempted : {<<>>}, backoff : {0},
                 signal : {FALSE}]
    /\ session = NoSession
    /\ tasks = <<>>
    /\ call = [method |-> None]
    /\ ret = Pending

\* the variables a step of the loop itself leaves alone
engineVars ==
    <<config, econfig, use_ai_analysis, cost_metrics, total_usage, callbacks,
      session, tasks>>

\* `proposals = await discover ...` returns: the new ones are marked known and, when
\* there are some, handed on
Scan ==
    \E found \in Discoveries :
        LET new_proposals == NewProposals(found, loop.known)
        IN  /\ loop.pc = "scan"
            /\ loop' = [loop EXCEPT
                   !.known = @ \cup Range(new_proposals),
                   !.batch = new_proposals,
                   !.i = IF new_proposals = <<>> THEN 0 ELSE 1,
                   !.pc = IF new_proposals = <<>> THEN "sleep" ELSE "batch",
                   !.stage = IF new_proposals # <<>> /\ loop.kind = "monitor_governance"
                             THEN "new_proposal" ELSE None]
            /\ UNCHANGED <<engineVars, processed_proposals, emitted, delivered,
                           call, ret>>

\* a plausible slip: the loop has no except branch and the exception ends it
ScanFails_Fatal ==
    /\ loop.pc = "scan"
    /\ loop' = [loop EXCEPT !.pc = "stopped"]
    /\ UNCHANGED <<engineVars, processed_proposals, emitted, delivered, call, ret>>

\* the discovery raises an Exception: the loop's except branch logs it and sleeps
ScanFails ==
    /\ loop.pc = "scan"
    /\ loop' = [loop EXCEPT !.pc = "backoff", !.backoff = BackoffSeconds(loop.kind)]
    /\ UNCHANGED <<engineVars, processed_proposals, emitted, delivered, call, ret>>

\* handle_new_proposals: await self.emit_event("new_proposal", ...)
EmitNewProposal ==
    LET pk == loop.batch[loop.i]
        data == Payload(pk, {"proposal", "discovered_at"})
        e == emit_event(callbacks, "new_proposal", data)
    IN  /\ loop.pc = "batch"
        /\ loop.stage = "new_proposal"
        /\ emitted' = Append(emitted, [event_type |-> "new_proposal", data |-> data])
        /\ delivered' = delivered \o e.deliveries
        /\ loop' = [loop EXCEPT !.stage = "process"]
        /\ UNCHANGED <<engineVars, processed_proposals, call, ret>>

\* the events of a list are published one after the other
RECURSIVE DeliverAll(_, _)
DeliverAll(cbs, emits) ==
    IF emits = <<>> THEN <<>>
    ELSE emit_event(cbs, Head(emits).event_type, Head(emits).data).deliveries
            \o DeliverAll(cbs, Tail(emits))

\* handle_new_proposals: result = await self.process_proposal(proposal)
ProcessProposal ==
    \E ai \in AnalyzerOutcomes, fetch \in MetadataFetches :
        LET proposal == MonitoredProposal(loop.batch[loop.i])
            r == process_proposal(config, proposal, ai, fetch)
        IN  /\ loop.pc = "batch"
            /\ loop.stage = "process"
            /\ call' = [method |-> "process_proposal", proposal |-> proposal.public_key]
            /\ ret' = r.result
            /\ processed_proposals' =
                   IF r.record = None THEN processed_proposals
                   ELSE Store(processed_proposals, proposal.public_key, r.record)
            /\ emitted' = emitted \o r.emits
            /\ delivered' = delivered \o DeliverAll(callbacks, r.emits)
            /\ loop' = [loop EXCEPT !.stage = "rate_limit",
                                    !.attempted = Append(@, proposal.public_key)]
            /\ UNCHANGED engineVars

\* handle_new_proposals: await asyncio.sleep(1), then the next proposal, or back in
\* monitor_governance after the last
RateLimit ==
    /\ loop.pc = "batch"
    /\ loop.stage = "rate_limit"
    /\ loop' = IF loop.i < Len(loop.batch)
               THEN [loop EXCEPT !.i = @ + 1, !.stage = "new_proposal"]
               ELSE [loop EXCEPT !.pc = "sleep", !.stage = None]
    /\ UNCHANGED <<engineVars, processed_proposals, emitted, delivered, call, ret>>

\* AgoraAgent.run: await self.process_proposal(proposal) inside the for loop, which
\* lies inside the try of the while loop
AgoraProcessProposal ==
    \E ai \in AnalyzerOutcomes :
        LET proposal == MonitoredProposal(loop.batch[loop.i])
            r == AgoraAgent_process_proposal(load_governance_rules, proposal, ai)
        IN  /\ loop.kind = "run"
            /\ loop.pc = "batch"
            /\ call' = [method |-> "process_proposal", proposal |-> proposal.public_key]
            /\ ret' = r
            /\ loop' = IF Has(r, "raised")
                       THEN [loop EXCEPT !.pc = "backoff",
                                         !.backoff = BackoffSeconds(loop.kind),
                                         !.attempted = Append(@, proposal.public_key)]
                       ELSE IF loop.i < Len(loop.batch)
                       THEN [loop EXCEPT !.i = @ + 1,
                                         !.attempted = Append(@, proposal.public_key)]
                       ELSE [loop EXCEPT !.pc = "sleep",
                                         !.attempted = Append(@, proposal.public_key)]
            /\ UNCHANGED <<engineVars, processed_proposals, emitted, delivered>>

\* GovernanceMonitor.start_monitoring: await self.process_new_proposals(...), which
\* prints every proposal
ProcessNewProposals ==
    /\ loop.kind = "start_monitoring"
    /\ loop.pc = "batch"
    /\ loop' = [loop EXCEPT !.pc = "sleep", !.i = Len(loop.batch),
                            !.attempted = @ \o loop.batch]
    /\ UNCHANGED <<engineVars, processed_proposals, emitted, delivered, call, ret>>

\* await asyncio.sleep(interval) at the end of an iteration returns
Sleep ==
    /\ loop.pc = "sleep"
    /\ loop' = [loop EXCEPT !.pc = "scan"]
    /\ UNCHANGED <<engineVars, processed_proposals, emitted, delivered, call, ret>>

\* await asyncio.sleep(...) of the except branch returns
Backoff ==
    /\ loop.pc = "backoff"
    /\ loop' = [loop EXCEPT !.pc = "scan"]
    /\ UNCHANGED <<engineVars, processed_proposals, emitted, delivered, call, ret>>

\* a shutdown signal (KeyboardInterrupt, or the cancellation of the task) arrives:
\* no except clause of the loop catches it, or `break` is taken, wherever the loop is
Shutdown ==
    /\ loop.pc # "stopped"
    /\ loop' = [loop EXCEPT !.pc = "stopped", !.signal = TRUE]
    /\ UNCHANGED <<engineVars, processed_proposals, emitted, delivered, call, ret>>

NextMonitor ==
    \/ Scan
    \/ ScanFails
    \/ EmitNewProposal
    \/ ProcessProposal
    \/ RateLimit
    \/ AgoraProcessProposal
    \/ ProcessNewProposals
    \/ Sleep
    \/ Backoff
    \/ Shutdown

SpecMonitor == InitMonitor /\ [][NextMonitor]_vars

\* the sleeps return
SpecMonitorFair == SpecMonitor /\ WF_vars(Sleep) /\ WF_vars(Backoff)

\* the event types that report a decision
DecisionEvents == {"auto_approve", "auto_reject", "human_review"}

\* the proposals whose processing has ended
Attempted == Range(loop.attempted)

\* C14: in GovernanceEngine the proposals of a batch are processed one at a time in
\* list order and the events of one proposal come in the order new_proposal,
\* analysis_complete, one decision event: the new_proposal event of a later proposal
\* never comes before the decision event of an earlier one, and a decision event
\* follows the analysis_complete event of its proposal.
C14_EventsInPipelineOrder ==
    /\ \A k \in 1..Len(emitted) :
          emitted[k].event_type = "new_proposal" =>
              \A j \in 1..(k - 1) :
                  emitted[j].event_type = "new_proposal" =>
                      \E m \in (j + 1)..(k - 1) :
                          /\ emitted[m].event_type \in DecisionEvents
                          /\ emitted[m].data.public_key = emitted[j].data.public_key
    /\ \A k \in 1..Len(emitted) :
          emitted[k].event_type \in DecisionEvents =>
              /\ k > 2
              /\ emitted[k - 1].event_type = "analysis_complete"
              /\ emitted[k - 1].data.public_key = emitted[k].data.public_key
              /\ emitted[k - 2].event_type = "new_proposal"
              /\ emitted[k - 2].data.public_key = emitted[k].data.public_key

\* C16: every proposal GovernanceEngine.process_proposal was given has a decision
\* when the call has returned: the result holds one, a record of it is stored and a
\* decision event was emitted, a failure giving human_review.
C16_EveryProposalDecided ==
    (call.method = "process_proposal" /\ loop.kind = "monitor_governance") =>
        /\ Has(ret, "decision")
        /\ call.proposal \in DOMAIN processed_proposals
        /\ \E k \in 1..Len(emitted) :
              /\ emitted[k].event_type \in DecisionEvents
              /\ emitted[k].data.public_key = call.proposal

\* C17: in every batch loop an exception raised while one proposal is processed
\* is caught for that proposal alone: when the iteration is over, every proposal of
\* the batch has been processed.
C17_LaterProposalsStillProcessed ==
    loop.pc \in {"scan", "sleep", "backoff"} => Range(loop.batch) \subseteq Attempted

\* C19: an exception inside an iteration of a polling loop is caught, the loop
\* sleeps a fixed interval and scans again; the loop stops only on a shutdown signal.
C19_LoopSurvivesFailures ==
    /\ [](loop.pc = "stopped" => loop.signal)
    /\ [](loop.pc = "backoff" =>
             loop.backoff = (IF loop.kind = "monitor_governance" THEN 60 ELSE 30))
    /\ [][loop.pc = "backoff" => loop'.pc \in {"scan", "stopped"}]_vars
    /\ (loop.pc = "backoff" ~> (loop.pc = "scan" \/ loop.pc = "stopped"))

\* C19 witness: AgoraAgent.run, after an iteration that failed on a proposal, has
\* slept, scanned again and holds a new batch
C19_Witness ==
    /\ loop.kind = "run"
    /\ loop.backoff = 30
    /\ loop.attempted = <<1>>
    /\ ret = Raised("TypeError: object can't be used in 'await' expression")
    /\ loop.pc = "batch"
    /\ loop.batch = <<2>>
    /\ ~loop.signal

\* C20: a shutdown signal that arrives while a proposal is being processed lets the
\* proposal finish: when the loop has stopped, the processing of every proposal that
\* was announced has ended.
C20_InFlightProposalFinishes ==
    loop.pc = "stopped" =>
        \A k \in 1..Len(emitted) :
            emitted[k].event_type = "new_proposal" =>
                emitted[k].data.public_key \in Attempted

\* C15: when the AI call fails or its content does not parse, the analysis used for
\* the decision is the heuristic analyzer's for that proposal.
C15_AiFailureGivesHeuristicAnalysis ==
    (EnhancedReturned /\ call.outcome.kind \in {"error", "bad_json", "raise"}) =>
        /\ ret.analysis_type = "heuristic"
        /\ ret.risk_level = _heuristic_analysis(call.proposal).risk_level
        /\ ret.sentiment_score = _heuristic_analysis(call.proposal).sentiment_score

\* C18: an AI call that gets no response is ended by a timeout, which is treated as
\* an AI failure: the heuristic analysis of the proposal is used and decided on.
C18_TimeoutGivesHeuristicDecision ==
    (EnhancedReturned /\ call.outcome.kind = "timeout") =>
        /\ ret.analysis_type = "heuristic"
        /\ ret.decision = _make_governance_decision(_heuristic_analysis(call.proposal))

----------------------------------------------------------------------------
(* Startup: AgoraLiveAgent.load_config (src/agora_live.py) and             *)
(* GovernanceEngine.__init__ (src/src/governance_engine.py)                *)
(* Specification SpecStartup: an engine is constructed with a supplied     *)
(* configuration, then make_governance_decision is called on it.           *)

\* the "automation" part of the dict AgoraLiveAgent.load_config returns by default
live_default_config ==
    [enabled |-> TRUE,
     auto_approve |-> [max_risk_level |-> "low", min_sentiment |-> 1,
                       min_confidence |-> 85],
     auto_reject |-> [min_risk_level |-> "critical", max_sentiment |-> -2],
     emergency_keywords |-> {"emergency", "critical", "urgent", "hack", "exploit",
                             "security"}]

\* the keys make_governance_decision reads from config["automation"]
RequiredKeys == {"enabled", "auto_approve", "auto_reject"}

\* the dict d without the keys of `missing`
Without(d, missing) == [k \in (DOMAIN d) \ missing |-> d[k]]

\* a falsy argument of GovernanceEngine(config): None or {}
NoConfig == [given |-> FALSE]

\* the dicts a caller or a configuration file may hold: complete ones, and ones
\* whose "automation" part lacks required keys
SuppliedDicts ==
    {[given |-> TRUE, automation |-> Without(c, missing)] :
        c \in {default_config, live_default_config,
               [default_config EXCEPT !.enabled = FALSE]},
        missing \in (SUBSET RequiredKeys) \ {RequiredKeys}}

\* config lacks a key the decision needs
Incomplete(supplied) ==
    supplied.given /\ ~(RequiredKeys \subseteq DOMAIN supplied.automation)

\* what AgoraLiveAgent is started with: no file name or no such file, a file that
\* cannot be read or parsed, a file holding a dict
ConfigFiles ==
    {[exists |-> FALSE], [exists |-> TRUE, readable |-> FALSE]}
        \cup {[exists |-> TRUE, readable |-> TRUE, content |-> d] : d \in SuppliedDicts}

\* AgoraLiveAgent.load_config(config_file)
load_config(config_file) ==
    IF config_file.exists /\ config_file.readable THEN config_file.content
    ELSE [given |-> TRUE, automation |-> live_default_config]

\* GovernanceEngine.__init__(config): self.config = config or self.default_config()
GovernanceEngine__init__(supplied) ==
    IF supplied.given THEN supplied.automation ELSE default_config

\* the constructor has returned an engine
Constructed == [constructed |-> TRUE]

StartupCalls ==
    [method : {"GovernanceEngine"}, config : SuppliedDicts \cup {NoConfig},
     analysis : Analyses]
        \cup [method : {"AgoraLiveAgent"}, config_file : ConfigFiles, analysis : Analyses]

InitStartup ==
    /\ config = [unset |-> TRUE]
    /\ econfig = enhanced_default_config
    /\ use_ai_analysis = FALSE
    /\ InitRest
    /\ InitIdle
    /\ call \in StartupCalls
    /\ ret = Pending

\* engine = GovernanceEngine(config)
ConstructEngine ==
    /\ call.method = "GovernanceEngine"
    /\ ret = Pending
    /\ config' = GovernanceEngine__init__(call.config)
    /\ ret' = Constructed
    /\ UNCHANGED <<econfig, use_ai_analysis, cost_metrics, processed_proposals,
                   total_usage, call>>
    /\ UNCHANGED pipelineVars

\* agent = AgoraLiveAgent(config_file)
ConstructLiveAgent ==
    /\ call.method = "AgoraLiveAgent"
    /\ ret = Pending
    /\ config' = GovernanceEngine__init__(load_config(call.config_file))
    /\ ret' = Constructed
    /\ UNCHANGED <<econfig, use_ai_analysis, cost_metrics, processed_proposals,
                   total_usage, call>>
    /\ UNCHANGED pipelineVars

\* engine.make_governance_decision(proposal, analysis) on the constructed engine
DecideAfterStartup ==
    /\ ret = Constructed
    /\ ret' = [decided |-> make_governance_decision(config, call.analysis)]
    /\ UNCHANGED <<config, econfig, use_ai_analysis, cost_metrics,
                   processed_proposals, total_usage, call>>
    /\ UNCHANGED pipelineVars

NextStartup == ConstructEngine \/ ConstructLiveAgent \/ DecideAfterStartup

SpecStartup == InitStartup /\ [][NextStartup]_vars

\* the configuration the engine was to be built with
SuppliedConfig ==
    IF call.method = "GovernanceEngine" THEN call.config
    ELSE load_config(call.config_file)

\* C21: a policy configuration that lacks a required key (automation.enabled,
\* auto_approve or auto_reject) is fatal at startup: the constructor raises, the
\* engine never holds the incomplete policy and no decision is made under it.
C21_IncompleteConfigFatalAtStartup ==
    (call.method \in {"GovernanceEngine", "AgoraLiveAgent"} /\ ret # Pending
        /\ Incomplete(SuppliedConfig)) =>
            /\ Has(ret, "raised")
            /\ ~(RequiredKeys \subseteq DOMAIN config) => config = [unset |-> TRUE]

----------------------------------------------------------------------------
(* The record store of EnhancedGovernanceEngine under SpecEnhanced *)

\* C22: the record store is append-only: a stored record is never changed or
\* replaced by a later call, and the number of stored records equals the number of
\* proposals processed.
C22_StoreIsAppendOnly ==
    /\ [][\A proposal_id \in DOMAIN processed_proposals :
            /\ proposal_id \in DOMAIN processed_proposals'
            /\ processed_proposals'[proposal_id] = processed_proposals[proposal_id]]_vars
    /\ [](Cardinality(DOMAIN processed_proposals) = cost_metrics.total_analyses)

----------------------------------------------------------------------------
(* Events and payloads under SpecMonitor *)

\* the keys of the payload the event bus contract announces
FullPayload == {"proposal", "analysis", "decision"}

\* C23: every event delivered to an observer, whatever its type, carries the full
\* payload: the proposal, the analysis and the decision.
C23_EveryDeliveryHasFullPayload ==
    \A k \in 1..Len(delivered) : FullPayload \subseteq delivered[k].data.keys

----------------------------------------------------------------------------
(* Cost attribution of EnhancedGovernanceEngine                            *)
(* Specification SpecCosts: as SpecEnhanced, the AI backend answering with *)
(* one of CostOutcomes.                                                    *)

\* one reply of each kind of AIOutcomes
CostOutcomes ==
    {[kind |-> "json", total_tokens |-> 1000,
      data |-> [risk_level |-> "low", sentiment_score |-> 1,
                automation_recommendation |-> "auto_approve",
                confidence_score |-> 80]],
     [kind |-> "bad_json", total_tokens |-> 1000],
     [kind |-> "error"], [kind |-> "timeout"], [kind |-> "raise"]}

\* await engine.analyze_proposal_enhanced(proposal)
AnalyzeScenario ==
    \E proposal \in ScenarioProposals, outcome \in CostOutcomes :
        LET r == analyze_proposal_enhanced(use_ai_analysis, proposal, outcome)
            ai == _should_use_ai_analysis(use_ai_analysis, proposal) /\ use_ai_analysis
            cm == EnhancedAnalysisMetrics(cost_metrics, use_ai_analysis, proposal, outcome)
        IN  /\ cost_metrics.total_analyses < MaxAnalyses
            /\ cost_metrics' =
                   _update_cost_metrics([cm EXCEPT !.total_analyses = @ + 1])
            /\ total_usage' = IF ai THEN UsageAfterCall(total_usage, outcome)
                              ELSE total_usage
            /\ processed_proposals' = Store(processed_proposals, r.proposal_id, r)
            /\ call' = [method |-> "analyze_proposal_enhanced", proposal |-> proposal,
                        outcome |-> IF ai THEN outcome ELSE [kind |-> None]]
            /\ ret' = r
            /\ UNCHANGED <<config, econfig, use_ai_analysis>>
            /\ UNCHANGED pipelineVars

NextCosts == AnalyzeScenario

SpecCosts == InitEnhanced /\ [][NextCosts]_vars

\* C24: an analysis that takes the heuristic path has zero token usage and a
\* decision with analysis_cost 0, and the call leaves cost_metrics.total_cost and the
\* AI analyzer's total_usage as they were; total_cost grows only by the cost of an
\* ai_powered analysis.
C24_HeuristicPathCostsNothing ==
    /\ []((call.method = "analyze_proposal_enhanced" /\ ret.analysis_type = "heuristic") =>
             /\ ret.token_usage.total_tokens = 0
             /\ ret.token_usage.cost_usd = 0
             /\ ret.decision.analysis_cost = 0)
    /\ [][/\ ret'.analysis_type = "heuristic" =>
                /\ cost_metrics'.total_cost = cost_metrics.total_cost
                /\ total_usage' = total_usage
          /\ ret'.analysis_type = "ai_powered" =>
                /\ cost_metrics'.total_cost =
                       cost_metrics.total_cost + ret'.token_usage.cost_usd
                /\ total_usage'.total_cost - total_usage.total_cost
                       \in {0, ret'.token_usage.cost_usd}]_vars

\* C24 witness: a heuristic analysis has returned on an engine that has paid for an
\* AI analysis before
C24_Witness ==
    /\ call.method = "analyze_proposal_enhanced"
    /\ ret.analysis_type = "heuristic"
    /\ cost_metrics.ai_analyses = 1
    /\ cost_metrics.heuristic_analyses = 1
    /\ cost_metrics.total_cost = _calculate_cost(1000)
    /\ total_usage.total_cost = _calculate_cost(1000)

----------------------------------------------------------------------------
(* GovernanceEngine.get_statistics (src/src/governance_engine.py)          *)
(* Specification SpecStatistics: one call of get_statistics on a store of  *)
(* up to MaxProposals records, each the result dict process_proposal       *)
(* stores.  A rate is kept as the exact fraction <<numerator, denominator>>. *)

\* the number of records of the store whose decision has this action
CountAction(store, action) ==
    Cardinality({k \in DOMAIN store :
                    Has(store[k], "decision") /\ store[k].decision.action = action})

\* the number of records of the store that hold a decision: len(decisions)
CountDecisions(store) ==
    Cardinality({k \in DOMAIN store : Has(store[k], "decision")})

\* max(a, b)
Max(a, b) == IF a >= b THEN a ELSE b

\* a plausible slip: the automation rate counts the approvals only
get_statistics_ApprovalsOnly(store) ==
    LET total == Cardinality(DOMAIN store)
    IN  IF total = 0 THEN [total_proposals |-> 0]
        ELSE [total_proposals |-> total,
              auto_approved |-> CountAction(store, "auto_approve"),
              auto_rejected |-> CountAction(store, "auto_reject"),
              human_review |-> CountAction(store, "human_review"),
              automation_rate |->
                  <<CountAction(store, "auto_approve"), Max(CountDecisions(store), 1)>>]

\* GovernanceEngine.get_statistics
get_statistics(store) ==
    LET total == Cardinality(DOMAIN store)
    IN  IF total = 0 THEN [total_proposals |-> 0]
        ELSE [total_proposals |-> total,
              auto_approved |-> CountAction(store, "auto_approve"),
              auto_rejected |-> CountAction(store, "auto_reject"),
              human_review |-> CountAction(store, "human_review"),
              automation_rate |->
                  <<CountAction(store, "auto_approve") + CountAction(store, "auto_reject"),
                    Max(CountDecisions(store), 1)>>]

\* the analyses of the stored records
StoredAnalyses == {a \in Analyses : a.confidence_score = 80}

\* the result dict process_proposal stores for the proposal with this key
StoredResult(public_key, analysis) ==
    [proposal |-> [public_key |-> public_key],
     analysis |-> analysis,
     decision |-> make_governance_decision(default_config, analysis)]

\* the stores of up to n records
Stores(n) ==
    UNION {{[k \in keys |-> StoredResult(k, analysis[k])] :
                analysis \in [keys -> StoredAnalyses]} : keys \in SUBSET (1..n)}

InitStatistics ==
    /\ config = default_config
    /\ econfig = enhanced_default_config
    /\ use_ai_analysis = FALSE
    /\ cost_metrics = InitCostMetrics
    /\ total_usage = InitTotalUsage
    /\ processed_proposals \in Stores(MaxProposals)
    /\ InitIdle
    /\ call = [method |-> "get_statistics"]
    /\ ret = Pending

GetStatistics ==
    /\ call.method = "get_statistics"
    /\ ret = Pending
    /\ ret' = get_statistics(processed_proposals)
    /\ UNCHANGED <<config, econfig, use_ai_analysis, cost_metrics,
                   processed_proposals, total_usage, call>>
    /\ UNCHANGED pipelineVars

NextStatistics == GetStatistics

SpecStatistics == InitStatistics /\ [][NextStatistics]_vars

\* the number of stored records whose decision is one of these actions
StoredWithAction(actions) ==
    Cardinality({k \in DOMAIN processed_proposals :
                    processed_proposals[k].decision.action \in actions})

\* C25: get_statistics reports total_proposals = the number of stored records; with
\* records, auto_approved + auto_rejected + human_review = total_proposals and
\* automation_rate = (auto_approved + auto_rejected) / total_proposals; with no
\* record it returns total_proposals 0 and divides by nothing.
C25_StatisticsDerivedFromStore ==
    (call.method = "get_statistics" /\ ret # Pending) =>
        /\ ret.total_proposals = Cardinality(DOMAIN processed_proposals)
        /\ processed_proposals = <<>> => ret = [total_proposals |-> 0]
        /\ processed_proposals # <<>> =>
              /\ ret.auto_approved = StoredWithAction({"auto_approve"})
              /\ ret.auto_rejected = StoredWithAction({"auto_reject"})
              /\ ret.human_review = StoredWithAction({"human_review"})
              /\ ret.auto_approved + ret.auto_rejected + ret.human_review
                     = ret.total_proposals
              /\ ret.automation_rate =
                     <<StoredWithAction({"auto_approve", "auto_reject"}),
                       Cardinality(DOMAIN processed_proposals)>>

\* C25 witness: statistics of a store with one auto-approved and one auto-rejected
\* proposal: automation rate 2/2
C25_Witness ==
    /\ call.method = "get_statistics"
    /\ ret # Pending
    /\ ret.total_proposals = 2
    /\ ret.auto_approved = 1
    /\ ret.auto_rejected = 1
    /\ ret.automation_rate = <<2, 2>>

----------------------------------------------------------------------------
(* Usage tracker of OpenRouterGovernanceAnalyzer: _update_usage_stats and  *)
(* get_usage_report (src/src/openrouter_analyzer.py)                       *)
(* Specification SpecUsage: up to MaxRecords token usages are recorded on  *)
(* a new analyzer and the report is computed at any moment.                *)

MaxRecords == 3

\* the TokenUsage objects recorded: usage["total_tokens"] and its cost
RecordedUsages ==
    {[total_tokens |-> t, cost_usd |-> _calculate_cost(t), model_used |-> "openrouter/auto"] :
        t \in {0, 1000, 4000, 40000}}

\* 0.01 USD in units of 1e-7 USD
OneCent == 100000

\* _get_optimization_recommendations
_get_optimization_recommendations(usage) ==
    LET avg_cost == usage.cost_per_analysis
    IN  (IF avg_cost[1] > OneCent * avg_cost[2]
         THEN <<"Consider shorter prompts for routine analysis">> ELSE <<>>)
        \o (IF usage.total_tokens > 10000
            THEN <<"Batch processing could reduce overhead">> ELSE <<>>)
        \o (IF usage.total_requests > 100
            THEN <<"Consider caching common analysis patterns">> ELSE <<>>)

\* get_usage_report; a quotient is the exact fraction <<numerator, denominator>>
get_usage_report(usage) ==
    [session_stats |-> usage,
     cost_efficiency |->
         [avg_tokens_per_analysis |->
              <<usage.total_tokens, Max(usage.total_requests, 1)>>,
          avg_cost_per_analysis |-> usage.cost_per_analysis,
          cost_per_1k_tokens |->
              <<usage.total_cost * 1000, Max(usage.total_tokens, 1)>>],
     recommendations |-> _get_optimization_recommendations(usage)]

InitUsage ==
    /\ config = default_config
    /\ econfig = enhanced_default_config
    /\ use_ai_analysis = TRUE
    /\ InitRest
    /\ InitIdle
    /\ call = [method |-> "_update_usage_stats", recorded |-> <<>>]
    /\ ret = Pending

\* self._update_usage_stats(token_usage)
UpdateUsageStats ==
    \E token_usage \in RecordedUsages :
        /\ Len(call.recorded) < MaxRecords
        /\ total_usage' = _update_usage_stats(total_usage, token_usage)
        /\ call' = [call EXCEPT !.recorded = Append(@, token_usage)]
        /\ ret' = Pending
        /\ UNCHANGED <<config, econfig, use_ai_analysis, cost_metrics,
                       processed_proposals>>
        /\ UNCHANGED pipelineVars

\* analyzer.get_usage_report()
GetUsageReport ==
    /\ ret = Pending
    /\ ret' = get_usage_report(total_usage)
    /\ UNCHANGED <<config, econfig, use_ai_analysis, cost_metrics,
                   processed_proposals, total_usage, call>>
    /\ UNCHANGED pipelineVars

NextUsage == UpdateUsageStats \/ GetUsageReport

SpecUsage == InitUsage /\ [][NextUsage]_vars

\* the sum of a field over the recorded usages
RECURSIVE SumOf(_, _)
SumOf(recorded, field) ==
    IF recorded = <<>> THEN 0
    ELSE Head(recorded)[field] + SumOf(Tail(recorded), field)

\* C26: after any sequence of _update_usage_stats calls total_requests is the number
\* of calls and total_tokens, total_cost are the sums of the recorded values; the
\* reported average cost per analysis times total_requests equals total_cost; with
\* no request the report is computed and its averages are 0.
C26_UsageTotalsAndAverage ==
    call.method = "_update_usage_stats" =>
        /\ total_usage.total_requests = Len(call.recorded)
        /\ total_usage.total_tokens = SumOf(call.recorded, "total_tokens")
        /\ total_usage.total_cost = SumOf(call.recorded, "cost_usd")
        /\ ret # Pending =>
              LET avg_cost == ret.cost_efficiency.avg_cost_per_analysis
                  avg_tokens == ret.cost_efficiency.avg_tokens_per_analysis
              IN  /\ avg_cost[2] > 0
                  /\ avg_tokens[2] > 0
                  /\ ret.cost_efficiency.cost_per_1k_tokens[2] > 0
                  /\ avg_cost[1] * Len(call.recorded)
                         = SumOf(call.recorded, "cost_usd") * avg_cost[2]
                  /\ avg_tokens[1] * Len(call.recorded)
                         = SumOf(call.recorded, "total_tokens") * avg_tokens[2]
                  /\ call.recorded = <<>> =>
                        /\ avg_cost[1] = 0
                        /\ avg_tokens[1] = 0
                        /\ ret.cost_efficiency.cost_per_1k_tokens[1] = 0

\* C26 witness: the report after three recorded usages of different cost
C26_Witness ==
    /\ call.method = "_update_usage_stats"
    /\ Len(call.recorded) = 3
    /\ call.recorded[1].total_tokens = 1000
    /\ call.recorded[2].total_tokens = 0
    /\ call.recorded[3].total_tokens = 40000
    /\ ret # Pending
    /\ ret.cost_efficiency.avg_cost_per_analysis = <<_calculate_cost(41000), 3>>
    /\ ret.recommendations = <<"Batch processing could reduce overhead">>

----------------------------------------------------------------------------
(* Reasons of the decisions of make_governance_decision under SpecDecision. *)
(* A reason is the f-string cut into its pieces: literal text at the odd     *)
(* places, an interpolated value at the even places, the first value being   *)
(* the risk level.                                                           *)

\* the places of a reason that hold an interpolated number
NumberSlots(reason) == {i \in DOMAIN reason : i % 2 = 0 /\ i > 2}

\* C27: with automation enabled the reason of every decision, whatever the branch,
\* embeds the risk level, the sentiment value and the confidence of the analysis,
\* and the decision's confidence is the confidence of the analysis.
C27_ReasonEmbedsRiskSentimentConfidence ==
    (Decided /\ config.enabled) =>
        /\ Len(ret.reason) >= 2
        /\ ret.reason[2] = call.analysis.risk_level
        /\ \E i, j \in NumberSlots(ret.reason) :
              /\ i # j
              /\ ret.reason[i] = call.analysis.sentiment_score
              /\ ret.reason[j] = call.analysis.confidence_score
        /\ ret.confidence = call.analysis.confidence_score

----------------------------------------------------------------------------
(* Concurrent callers of EnhancedGovernanceEngine.analyze_proposal_enhanced *)
(* Specification SpecConcurrent: MaxTasks asyncio tasks call it on one       *)
(* engine, one proposal each.  A step of a task is the code between two      *)
(* suspension points: the heuristic path has none, the AI path suspends      *)
(* while the request is awaited and in `await self.session.close()`.         *)

MaxTasks == 2

TaskIds == 1..MaxTasks

\* what the backend answers to a request on an open session
ConcurrentOutcomes == {o \in CostOutcomes : o.kind \in {"json", "error"}}

\* a task that has not started
NewTask(proposal) ==
    [pc |-> "start", proposal |-> proposal, session |-> 0,
     outcome |-> [kind |-> None], session_closed |-> FALSE]

InitConcurrent ==
    /\ config = default_config
    /\ econfig = enhanced_default_config
    /\ use_ai_analysis \in BOOLEAN
    /\ InitRest
    /\ callbacks = NoCallbacks
    /\ emitted = <<>>
    /\ delivered = <<>>
    /\ loop = [kind |-> None]
    /\ session = NoSession
    /\ tasks \in {[t \in TaskIds |-> NewTask(proposal[t])] :
                     proposal \in [TaskIds -> ScenarioProposals]}
    /\ call = [method |-> None]
    /\ ret = Pending

\* the task takes the AI branch of analyze_proposal_enhanced
TakesAiPath(t) ==
    _should_use_ai_analysis(use_ai_analysis, tasks[t].proposal) /\ use_ai_analysis

\* the task's share of analyze_proposal_enhanced after the analysis: the counters,
\* the decision and the stored record
Completed(t, outcome) ==
    LET proposal == tasks[t].proposal
        r == analyze_proposal_enhanced(use_ai_analysis, proposal, outcome)
        cm == EnhancedAnalysisMetrics(cost_metrics, use_ai_analysis, proposal, outcome)
    IN  /\ cost_metrics' = _update_cost_metrics([cm EXCEPT !.total_analyses = @ + 1])
        /\ processed_proposals' = Store(processed_proposals, r.proposal_id, r)

\* the heuristic branch: no await, the call runs to its end in one step
CallHeuristic ==
    \E t \in TaskIds :
        /\ tasks[t].pc = "start"
        /\ ~TakesAiPath(t)
        /\ Completed(t, [kind |-> None])
        /\ tasks' = [tasks EXCEPT ![t].pc = "done"]
        /\ UNCHANGED <<config, econfig, use_ai_analysis, total_usage, call, ret,
                       callbacks, emitted, delivered, loop, session>>

\* `async with self.ai_analyzer`: __aenter__ puts a new ClientSession into
\* self.session; analyze_governance_proposal posts on self.session and suspends
EnterAndPost ==
    \E t \in TaskIds :
        /\ tasks[t].pc = "start"
        /\ TakesAiPath(t)
        /\ session' = [session EXCEPT !.current = session.opened + 1,
                                      !.opened = @ + 1]
        /\ tasks' = [tasks EXCEPT ![t].pc = "awaiting",
                                  ![t].session = session.opened + 1]
        /\ UNCHANGED <<config, econfig, use_ai_analysis, cost_metrics,
                       processed_proposals, total_usage, call, ret,
                       callbacks, emitted, delivered, loop>>

\* the request ends: on a session that was closed meanwhile it fails; the method
\* returns its analysis and __aexit__ closes whatever self.session holds now
Respond ==
    \E t \in TaskIds, reply \in ConcurrentOutcomes :
        LET session_closed == tasks[t].session \in session.closed
            outcome == IF session_closed THEN [kind |-> "error"] ELSE reply
        IN  /\ tasks[t].pc = "awaiting"
            /\ total_usage' = UsageAfterCall(total_usage, outcome)
            /\ session' = [session EXCEPT !.closed = @ \cup {session.current}]
            /\ tasks' = [tasks EXCEPT ![t].pc = "exiting",
                                      ![t].outcome = outcome,
                                      ![t].session_closed = session_closed]
            /\ UNCHANGED <<config, econfig, use_ai_analysis, cost_metrics,
                           processed_proposals, call, ret,
                           callbacks, emitted, delivered, loop>>

\* `await self.session.close()` returns: the rest of analyze_proposal_enhanced
Complete ==
    \E t \in TaskIds :
        /\ tasks[t].pc = "exiting"
        /\ Completed(t, tasks[t].outcome)
        /\ tasks' = [tasks EXCEPT ![t].pc = "done"]
        /\ UNCHANGED <<config, econfig, use_ai_analysis, total_usage, call, ret,
                       callbacks, emitted, delivered, loop, session>>

NextConcurrent == CallHeuristic \/ EnterAndPost \/ Respond \/ Complete

SpecConcurrent == InitConcurrent /\ [][NextConcurrent]_vars

\* the tasks whose call has returned
DoneTasks == {t \in DOMAIN tasks : tasks[t].pc = "done"}

\* C28: when tasks process proposals concurrently on one engine no update is lost:
\* every proposal whose call returned has a complete record in the store,
\* total_analyses is the number of calls that returned and equals ai_analyses +
\* heuristic_analyses, and no task's AI call fails because of the session handling
\* of another task.
C28_ConcurrentTasksKeepStateConsistent ==
    /\ \A t \in DoneTasks :
          /\ ProposalId(tasks[t].proposal) \in DOMAIN processed_proposals
          /\ Has(processed_proposals[ProposalId(tasks[t].proposal)], "decision")
    /\ cost_metrics.total_analyses = Cardinality(DoneTasks)
    /\ cost_metrics.total_analyses =
           cost_metrics.ai_analyses + cost_metrics.heuristic_analyses
    /\ \A t \in DOMAIN tasks : ~tasks[t].session_closed

----------------------------------------------------------------------------
(* De-duplication of discovered proposals under SpecMonitor *)

\* C29: within one run of a monitoring loop a proposal is handed to the processing
\* step at most once, however often scans find it again: the proposals of a batch
\* are marked known when the batch is formed, the known set only grows and a new
\* batch holds no known proposal and no proposal twice; so a proposal of a batch
\* whose processing was interrupted by an error is not handed over again.
C29_EachProposalHandedOverOnce ==
    /\ [](Range(loop.batch) \subseteq loop.known)
    /\ [][loop.known \subseteq loop'.known]_vars
    /\ [][(loop.pc = "scan" /\ loop'.pc = "batch") =>
             /\ Range(loop'.batch) \cap loop.known = {}
             /\ \A i, j \in DOMAIN loop'.batch :
                   i # j => loop'.batch[i] # loop'.batch[j]]_vars

\* C29 witness: AgoraAgent.run was interrupted by an error on proposal 1 of the batch
\* <<1, 2>>; after the backoff a scan has run and handed over nothing, although
\* proposal 2 was never processed
C29_Witness ==
    /\ loop.kind = "run"
    /\ loop.known = {1, 2}
    /\ loop.attempted = <<1>>
    /\ loop.backoff = 30
    /\ loop.batch = <<>>
    /\ loop.pc = "sleep"
    /\ ~loop.signal

----------------------------------------------------------------------------
(* GovernanceEngine.apply_dao_specific_rules (src/src/governance_engine.py) *)
(* Specification SpecDaoRules: one call on any analysis and any proposal    *)
(* whose description_link holds some of DaoWords, under the default or the  *)
(* production configuration.                                                *)

\* the words of a description_link that the rules look for, and one they ignore
DaoWords == {"emergency", "exploit", "treasury", "fund", "parameter"}

\* proposal.description_link
DescriptionLinks ==
    {[http |-> TRUE, text |-> Occ(style, words)] :
        style \in Styles, words \in SUBSET DaoWords}

\* the ProposalAnalysis objects handed to apply_dao_specific_rules
DaoAnalyses ==
    {[risk_level |-> r, risk_factors |-> HeuristicRiskFactors(r),
      sentiment_score |-> s, confidence_score |-> AnalyzerHeuristicConfidence] :
        r \in RiskLevel, s \in {-1, 0, 1}}

InitDaoRules ==
    /\ config \in {default_config, live_default_config}
    /\ econfig = enhanced_default_config
    /\ use_ai_analysis = FALSE
    /\ InitRest
    /\ InitIdle
    /\ call \in [method : {"apply_dao_specific_rules"},
                 proposal : [public_key : {1}, description_link : DescriptionLinks],
                 analysis : DaoAnalyses]
    /\ ret = Pending

ApplyDaoSpecificRules ==
    /\ call.method = "apply_dao_specific_rules"
    /\ ret = Pending
    /\ ret' = apply_dao_specific_rules(config, call.proposal, call.analysis)
    /\ UNCHANGED <<config, econfig, use_ai_analysis, cost_metrics,
                   processed_proposals, total_usage, call>>
    /\ UNCHANGED pipelineVars

NextDaoRules == ApplyDaoSpecificRules

SpecDaoRules == InitDaoRules /\ [][NextDaoRules]_vars

\* C30: apply_dao_specific_rules only escalates: the risk level it returns is at
\* least as severe as the one it was given (low < medium < high < critical), and a
\* proposal matching an emergency keyword leaves it with risk level critical.
C30_DaoRulesOnlyEscalate ==
    (call.method = "apply_dao_specific_rules" /\ ret # Pending) =>
        /\ RiskRank(ret.risk_level) >= RiskRank(call.analysis.risk_level)
        /\ (\E keyword \in config.emergency_keywords :
                <<keyword, "lower">> \in Lower(call.proposal.description_link.text))
               => ret.risk_level = "critical"

====
